---- MODULE Spec2Model ----
(***************************************************************************)
(* Model of the aiOp lifecycle of the aiops-bundler: ingress validation    *)
(* (reputation handlers), the mempool, and the batch pipeline with the     *)
(* gas cap and the submitter's gas-estimation loop.                        *)
(***************************************************************************)
EXTENDS Integers, Sequences, FiniteSets, TLC

VARIABLES
    mempool,         \* Mempool: ops (per middleware, arrival order) and the entity indexes
    opsSeen,         \* reputation counter per address
    opsIncluded,     \* reputation counter per address
    repConst,        \* Reputation.repConst (ReputationConstants)
    maxBatchGasLimit,\* conf.MaxBatchGasLimit, closed over by MaintainGasLimit
    maxBatch,        \* Bundler.maxBatch
    builder,         \* BuilderClient: the builders of its rpc and blocksInTheFuture
    resp,            \* outcome of the latest request / handler call
    bpc,             \* position of the bundler thread inside Process
    batch,           \* BatchHandlerCtx.Batch
    pendingRemoval,  \* BatchHandlerCtx.PendingRemoval (ops only)
    optsBatch,       \* transaction.Opts.Batch of the running SendAiOperation
    reverts,         \* FailedOp reverts handled by the running estimation loop
    sent,            \* batch of the latest handleOps transaction of the run
    txs,             \* batches of all handleOps transactions sent or broadcast so far
    dbg,             \* the Process run of a debug_bundler_sendBundleNow call
    loop,            \* Bundler.isRunning, the goroutine of Run, its ticker, a blocked Stop
    inflight,        \* per HTTP handler thread: the AiOpHandlerCtx of its open eth_sendAiOperation
    fn               \* argument/result record of a handler applied on its own

vars == <<mempool, opsSeen, opsIncluded, repConst, maxBatchGasLimit, maxBatch, builder,
          resp, bpc, batch, pendingRemoval, optsBatch, reverts, sent, txs, dbg, loop, inflight, fn>>

(***************************************************************************)
(* Addresses and aiOps                                                     *)
(***************************************************************************)
ZeroAddress == "0x"
S1 == "S1"
S2 == "S2"
F1 == "F1"
P1 == "P1"
Entities == {S1, S2, F1, P1}
MW1 == "mw1"
MW2 == "mw2"
Middlewares == {MW1, MW2}

\* Bounds of the model
MaxNonce == 1
MaxOpsSeen == 4
MaxGasBatch == 5
MaxTickOps == 10

\* An aiOp.  zeroBytes / nonZeroBytes are the byte counts of Pack() of the
\* sanitized copy built by CalcPreVerificationGas.
MkOp(s, n, f, p, prio, fee, cgl, vgl, pvg, zb, nzb) ==
    [sender |-> s, nonce |-> n, factory |-> f, paymaster |-> p,
     maxPriorityFeePerGas |-> prio, maxFeePerGas |-> fee,
     callGasLimit |-> cgl, verificationGasLimit |-> vgl,
     preVerificationGas |-> pvg, zeroBytes |-> zb, nonZeroBytes |-> nzb]

GetFactory(op) == op.factory
GetPaymaster(op) == op.paymaster

\* maxGasAvailable = callGasLimit + verificationGasLimit * (paymaster ? 3 : 1)
\*                   + preVerificationGas
GetMaxGasAvailable(op) ==
    op.callGasLimit
      + op.verificationGasLimit * (IF GetPaymaster(op) # ZeroAddress THEN 3 ELSE 1)
      + op.preVerificationGas

(***************************************************************************)
(* Sequence helpers                                                        *)
(***************************************************************************)
Range(q) == {q[i] : i \in 1..Len(q)}

RECURSIVE SeqFilterOut(_, _)
\* q without the elements that are in set D, order kept
SeqFilterOut(q, D) ==
    IF q = <<>> THEN <<>>
    ELSE IF Head(q) \in D THEN SeqFilterOut(Tail(q), D)
         ELSE <<Head(q)>> \o SeqFilterOut(Tail(q), D)

(***************************************************************************)
(* Mempool                                                                 *)
(***************************************************************************)
MemKey(op) == <<op.sender, op.nonce>>

EmptyIndex == [a \in Entities |-> {}]

EmptyMempool ==
    [ops         |-> [mw \in Middlewares |-> <<>>],
     byFactory   |-> [mw \in Middlewares |-> EmptyIndex],
     byPaymaster |-> [mw \in Middlewares |-> EmptyIndex]]

\* position of the entry with op's key in q, 0 when absent
KeyPos(q, k) ==
    IF \E i \in 1..Len(q) : MemKey(q[i]) = k
    THEN CHOOSE i \in 1..Len(q) : MemKey(q[i]) = k
    ELSE 0

\* replacement rule: both fees at least 110% of the incumbent's
CanReplaceOrFee(old, new) ==
    \/ new.maxPriorityFeePerGas * 100 >= old.maxPriorityFeePerGas * 110
    \/ new.maxFeePerGas * 100 >= old.maxFeePerGas * 110

CanReplace(old, new) ==
    /\ new.maxPriorityFeePerGas * 100 >= old.maxPriorityFeePerGas * 110
    /\ new.maxFeePerGas * 100 >= old.maxFeePerGas * 110

\* an index that never forgets a key
IndexKeep(idx, addr, k) == idx

IndexDel(idx, addr, k) ==
    IF addr = ZeroAddress THEN idx ELSE [idx EXCEPT ![addr] = @ \ {k}]

IndexPut(idx, addr, k) ==
    IF addr = ZeroAddress THEN idx ELSE [idx EXCEPT ![addr] = @ \cup {k}]

\* error of Mempool.AddOp, "none" when the op is stored
AddOpErr(mem, mw, op) ==
    LET i == KeyPos(mem.ops[mw], MemKey(op))
    IN  IF i # 0 /\ ~CanReplace(mem.ops[mw][i], op)
        THEN "DuplicateUnderpriced" ELSE "none"

AddOpAlwaysAppend(mem, mw, op) ==
    [ops         |-> [mem.ops EXCEPT ![mw] = Append(@, op)],
     byFactory   |-> [mem.byFactory EXCEPT
                        ![mw] = IndexPut(@, GetFactory(op), MemKey(op))],
     byPaymaster |-> [mem.byPaymaster EXCEPT
                        ![mw] = IndexPut(@, GetPaymaster(op), MemKey(op))]]

\* Mempool.AddOp: insert, or replace the incumbent of the same key, in one
\* transaction together with the factory and paymaster indexes
AddOp(mem, mw, op) ==
    LET q == mem.ops[mw]
        k == MemKey(op)
        i == KeyPos(q, k)
    IN  IF AddOpErr(mem, mw, op) # "none" THEN mem
        ELSE IF i = 0
        THEN [ops         |-> [mem.ops EXCEPT ![mw] = Append(q, op)],
              byFactory   |-> [mem.byFactory EXCEPT
                                 ![mw] = IndexPut(@, GetFactory(op), k)],
              byPaymaster |-> [mem.byPaymaster EXCEPT
                                 ![mw] = IndexPut(@, GetPaymaster(op), k)]]
        ELSE [ops         |-> [mem.ops EXCEPT ![mw] = [q EXCEPT ![i] = op]],
              byFactory   |-> [mem.byFactory EXCEPT
                                 ![mw] = IndexPut(IndexDel(@, GetFactory(q[i]), k),
                                                  GetFactory(op), k)],
              byPaymaster |-> [mem.byPaymaster EXCEPT
                                 ![mw] = IndexPut(IndexDel(@, GetPaymaster(q[i]), k),
                                                  GetPaymaster(op), k)]]

\* Mempool.RemoveOps: delete the entries with the keys of the given ops and
\* their index entries
RemoveOps(mem, mw, ops) ==
    LET keys == {MemKey(o) : o \in ops}
        gone == {o \in Range(mem.ops[mw]) : MemKey(o) \in keys}
    IN  [ops         |-> [mem.ops EXCEPT ![mw] = SeqFilterOut(@, gone)],
         byFactory   |-> [mem.byFactory EXCEPT
                            ![mw] = [a \in Entities |-> @[a] \ keys]],
         byPaymaster |-> [mem.byPaymaster EXCEPT
                            ![mw] = [a \in Entities |-> @[a] \ keys]]]

\* Mempool.Clear
Clear(mem) == EmptyMempool

\* the entries of a middleware, latest arrival first
DumpNewestFirst(mem, mw) ==
    [i \in 1..Len(mem.ops[mw]) |-> mem.ops[mw][Len(mem.ops[mw]) + 1 - i]]

\* Mempool.Dump: entries of a middleware in arrival order
Dump(mem, mw) == mem.ops[mw]


RECURSIVE SortByNonceDesc(_)
\* entries of a set of ops, newest nonce first
SortByNonceDesc(S) ==
    IF S = {} THEN <<>>
    ELSE LET o == CHOOSE x \in S : \A y \in S : x.nonce >= y.nonce
         IN  <<o>> \o SortByNonceDesc(S \ {o})

\* the entries of a sender in the order they arrived
GetBySenderArrival(mem, mw, addr) ==
    SeqFilterOut(mem.ops[mw], {o \in Range(mem.ops[mw]) : o.sender # addr})

\* Mempool.GetOps (by sender): read from the primary store
GetBySender(mem, mw, addr) ==
    SortByNonceDesc({o \in Range(mem.ops[mw]) : o.sender = addr})

\* Mempool.GetOps by factory / paymaster: the index gives the primary keys,
\* the entries are fetched from the primary store
GetByFactory(mem, mw, addr) ==
    IF addr = ZeroAddress THEN <<>>
    ELSE SortByNonceDesc({o \in Range(mem.ops[mw]) :
                            MemKey(o) \in mem.byFactory[mw][addr]})

GetByPaymaster(mem, mw, addr) ==
    IF addr = ZeroAddress THEN <<>>
    ELSE SortByNonceDesc({o \in Range(mem.ops[mw]) :
                            MemKey(o) \in mem.byPaymaster[mw][addr]})

(***************************************************************************)
(* Reputation                                                              *)
(***************************************************************************)
\* config.NewReputationConstantsFromEnv defaults
DefaultReputationConstants ==
    [SameSenderMempoolCount         |-> 10,
     SameUnstakedEntityMempoolCount |-> 11,
     ThrottledEntityMempoolCount    |-> 4,
     MinInclusionRateDenominator    |-> 10,
     ThrottlingSlack                |-> 10,
     BanSlack                       |-> 50]

\* a configuration (environment) with small limits, so that the limits are
\* met by a mempool of a few ops
SmallReputationConstants ==
    [SameSenderMempoolCount         |-> 1,
     SameUnstakedEntityMempoolCount |-> 1,
     ThrottledEntityMempoolCount    |-> 1,
     MinInclusionRateDenominator    |-> 1,
     ThrottlingSlack                |-> 1,
     BanSlack                       |-> 2]

getStatusNoBan(seen, included, rc) ==
    LET minExpectedIncluded == seen \div rc.MinInclusionRateDenominator
    IN  IF included + rc.ThrottlingSlack < minExpectedIncluded THEN "throttled"
        ELSE "ok"

\* getStatus: status of an entity from its counters
getStatus(seen, included, rc) ==
    LET minExpectedIncluded == seen \div rc.MinInclusionRateDenominator
    IN  IF included + rc.BanSlack < minExpectedIncluded THEN "banned"
        ELSE IF included + rc.ThrottlingSlack < minExpectedIncluded THEN "throttled"
        ELSE "ok"

StatusOf(addr) == getStatus(opsSeen[addr], opsIncluded[addr], repConst)

\* modules.NewAiOpHandlerContext: the pending ops of the op's entities and
\* their deposit info are read when the context is created
NewAiOpHandlerContext(op, mw, mem, stk) ==
    [op |-> op, mw |-> mw,
     pendingSenderOps    |-> GetBySender(mem, mw, op.sender),
     pendingFactoryOps   |-> GetByFactory(mem, mw, GetFactory(op)),
     pendingPaymasterOps |-> GetByPaymaster(mem, mw, GetPaymaster(op)),
     senderStaked    |-> stk.sender,
     factoryStaked   |-> stk.factory,
     paymasterStaked |-> stk.paymaster]

CheckStatusSenderOnly(ctx) ==
    LET st == StatusOf(ctx.op.sender)
    IN  IF st = "banned" THEN "BannedOrThrottled"
        ELSE IF st = "throttled"
                /\ Len(ctx.pendingSenderOps) = repConst.ThrottledEntityMempoolCount
        THEN "BannedOrThrottled"
        ELSE "none"

\* Reputation.CheckStatus
CheckStatus(ctx) ==
    LET sender    == ctx.op.sender
        factory   == GetFactory(ctx.op)
        paymaster == GetPaymaster(ctx.op)
    IN  IF StatusOf(sender) = "banned" THEN "BannedOrThrottled"
        ELSE IF StatusOf(sender) = "throttled"
                /\ Len(ctx.pendingSenderOps) = repConst.ThrottledEntityMempoolCount
        THEN "BannedOrThrottled"
        ELSE IF factory # ZeroAddress /\ StatusOf(factory) = "banned"
        THEN "BannedOrThrottled"
        ELSE IF factory # ZeroAddress /\ StatusOf(factory) = "throttled"
                /\ Len(ctx.pendingFactoryOps) = repConst.ThrottledEntityMempoolCount
        THEN "BannedOrThrottled"
        ELSE IF paymaster # ZeroAddress /\ StatusOf(paymaster) = "banned"
        THEN "BannedOrThrottled"
        ELSE IF paymaster # ZeroAddress /\ StatusOf(paymaster) = "throttled"
                /\ Len(ctx.pendingPaymasterOps) = repConst.ThrottledEntityMempoolCount
        THEN "BannedOrThrottled"
        ELSE "none"

ValidateOpLimitAtLeast(ctx) ==
    LET factory   == GetFactory(ctx.op)
        paymaster == GetPaymaster(ctx.op)
    IN  IF ~ctx.senderStaked
           /\ Len(ctx.pendingSenderOps) >= repConst.SameSenderMempoolCount
        THEN "InvalidEntityStake"
        ELSE IF factory # ZeroAddress /\ ~ctx.factoryStaked
                /\ Len(ctx.pendingFactoryOps) >= repConst.SameUnstakedEntityMempoolCount
        THEN "InvalidEntityStake"
        ELSE IF paymaster # ZeroAddress /\ ~ctx.paymasterStaked
                /\ Len(ctx.pendingPaymasterOps) >= repConst.SameUnstakedEntityMempoolCount
        THEN "InvalidEntityStake"
        ELSE "none"

\* Reputation.ValidateOpLimit
ValidateOpLimit(ctx) ==
    LET factory   == GetFactory(ctx.op)
        paymaster == GetPaymaster(ctx.op)
    IN  IF ~ctx.senderStaked
           /\ Len(ctx.pendingSenderOps) = repConst.SameSenderMempoolCount
        THEN "InvalidEntityStake"
        ELSE IF factory # ZeroAddress /\ ~ctx.factoryStaked
                /\ Len(ctx.pendingFactoryOps) = repConst.SameUnstakedEntityMempoolCount
        THEN "InvalidEntityStake"
        ELSE IF paymaster # ZeroAddress /\ ~ctx.paymasterStaked
                /\ Len(ctx.pendingPaymasterOps) = repConst.SameUnstakedEntityMempoolCount
        THEN "InvalidEntityStake"
        ELSE "none"

\* the addresses of an op, once per role it fills
RoleCount(op, a) ==
    (IF op.sender = a THEN 1 ELSE 0)
      + (IF GetFactory(op) # ZeroAddress /\ GetFactory(op) = a THEN 1 ELSE 0)
      + (IF GetPaymaster(op) # ZeroAddress /\ GetPaymaster(op) = a THEN 1 ELSE 0)

\* counters that grow for the sender of the op only
IncOpsSeenSender(seen, op) ==
    [a \in Entities |-> seen[a] + (IF op.sender = a THEN 1 ELSE 0)]

\* Reputation.IncOpsSeen: the counters after the handler
IncOpsSeen(seen, op) == [a \in Entities |-> seen[a] + RoleCount(op, a)]

RECURSIVE BatchRoleCount(_, _)
BatchRoleCount(b, a) ==
    IF b = <<>> THEN 0 ELSE RoleCount(Head(b), a) + BatchRoleCount(Tail(b), a)

\* counters that grow for the senders of the batch only
IncOpsIncludedSenders(included, b) ==
    [a \in Entities |->
        included[a] + Cardinality({i \in 1..Len(b) : b[i].sender = a})]

\* Reputation.IncOpsIncluded: the counters after the handler
IncOpsIncluded(included, b) ==
    [a \in Entities |-> included[a] + BatchRoleCount(b, a)]

(***************************************************************************)
(* JSON-RPC errors                                                         *)
(***************************************************************************)
\* numeric code of an error kind (0: no error, -32603: internal)
RpcCode(err) ==
    CASE err = "none"                  -> 0
      [] err = "BannedOrThrottled"     -> -32502
      [] err = "InvalidEntityStake"    -> -32504
      [] err = "RejectedByEpOrAccount" -> -32500
      [] OTHER                         -> -32603

\* the latest call and its answer: method, request, error kind, numeric code,
\* and the step that produced the answer
Resp(method, req, err, note) ==
    [method |-> method, req |-> req, err |-> err, code |-> RpcCode(err),
     note |-> note]

NoReq == <<>>

NoResp == Resp("", NoReq, "none", "")

(***************************************************************************)
(* Ingress: Client.SendAiOperation with the modules of SearcherMode        *)
(***************************************************************************)
\* HTTP handler threads that serve eth_sendAiOperation
Threads == 1..2

NoCall == [busy |-> FALSE]

\* deposit info of the op's entities: staked or not
Stakes ==
    {[sender |-> a, factory |-> b, paymaster |-> b] : a \in BOOLEAN, b \in BOOLEAN}

IngressHandlersSeenFirst == <<"IncOpsSeen", "CheckStatus", "ValidateOpLimit",
                              "ValidateOpValues", "SimulateOp">>

\* c.UseModules(...): the handlers in the order they run
IngressHandlers == <<"CheckStatus", "ValidateOpLimit", "ValidateOpValues",
                     "SimulateOp", "IncOpsSeen">>

\* error of one handler; valuesErr / simErr are what the chain answers to
\* ValidateOpValues and SimulateOp
HandlerErr(h, ctx, valuesErr, simErr) ==
    CASE h = "CheckStatus"      -> CheckStatus(ctx)
      [] h = "ValidateOpLimit"  -> ValidateOpLimit(ctx)
      [] h = "ValidateOpValues" -> valuesErr
      [] h = "SimulateOp"       -> simErr
      [] h = "IncOpsSeen"       -> "none"

RECURSIVE FirstFailingFrom(_, _, _, _, _)
FirstFailingFrom(hs, i, ctx, valuesErr, simErr) ==
    IF i > Len(hs) THEN i
    ELSE IF HandlerErr(hs[i], ctx, valuesErr, simErr) # "none" THEN i
    ELSE FirstFailingFrom(hs, i + 1, ctx, valuesErr, simErr)

\* position of the first handler that fails, Len+1 when all pass
FirstFailing(hs, ctx, valuesErr, simErr) ==
    FirstFailingFrom(hs, 1, ctx, valuesErr, simErr)

\* what the chain answers to ValidateOpValues and SimulateOp; SimulateOp is
\* not asked when ValidateOpValues fails
ChainAnswers ==
    {<<"none", "none">>, <<"InvalidFields", "none">>,
     <<"none", "RejectedByEpOrAccount">>}

\* eth_sendAiOperation after the context was created: run the handlers in
\* order, stop at the first error, then add the op to the mempool
RunHandlers(ctx, stk, valuesErr, simErr) ==
    \E ff \in {FirstFailing(IngressHandlers, ctx, valuesErr, simErr)} :
    LET hs     == IngressHandlers
        mw     == ctx.mw
        op     == ctx.op
        \* handlers that ran to completion without error
        passed == {hs[j] : j \in 1..(ff - 1)}
        herr   == IF ff <= Len(hs) THEN HandlerErr(hs[ff], ctx, valuesErr, simErr)
                  ELSE "none"
        addErr == AddOpErr(mempool, mw, op)
        req    == [mw |-> mw, op |-> op, stk |-> stk,
                   valuesErr |-> valuesErr, simErr |-> simErr]
    IN  /\ \A a \in Entities : opsSeen[a] + RoleCount(op, a) <= MaxOpsSeen
        /\ opsSeen' = IF "IncOpsSeen" \in passed THEN IncOpsSeen(opsSeen, op)
                      ELSE opsSeen
        /\ mempool' = IF herr = "none" THEN AddOp(mempool, mw, op) ELSE mempool
        /\ resp' = Resp("eth_sendAiOperation", req,
                         IF herr # "none" THEN herr ELSE addErr,
                         IF ff <= Len(hs) THEN hs[ff] ELSE "AddOp")
        /\ UNCHANGED <<opsIncluded, repConst, maxBatchGasLimit, maxBatch, builder, bpc, batch,
                       pendingRemoval, optsBatch, reverts, sent, fn, txs, dbg, loop>>

\* eth_sendAiOperation served without another request in between
SendAiOperation(mw, op, stk, valuesErr, simErr) ==
    \E ctx \in {NewAiOpHandlerContext(op, mw, mempool, stk)} :
        RunHandlers(ctx, stk, valuesErr, simErr) /\ UNCHANGED inflight

\* eth_sendAiOperation on thread t, first half: the context is created, with
\* the pending ops of the op's entities as they are now
BeginSendAiOperation(t, mw, op, stk) ==
    /\ ~inflight[t].busy
    /\ inflight' = [inflight EXCEPT ![t] = [busy |-> TRUE, stk |-> stk,
                                      ctx |-> NewAiOpHandlerContext(op, mw, mempool, stk)]]
    /\ UNCHANGED <<mempool, opsSeen, opsIncluded, repConst, maxBatchGasLimit, maxBatch, builder,
                   resp, bpc, batch, pendingRemoval, optsBatch, reverts, sent, fn, txs,
                   dbg, loop>>

\* eth_sendAiOperation on thread t, second half: the handlers run on the
\* context and the op is added to the mempool as it is then
EndSendAiOperation(t, valuesErr, simErr) ==
    /\ inflight[t].busy
    /\ RunHandlers(inflight[t].ctx, inflight[t].stk, valuesErr, simErr)
    /\ inflight' = [inflight EXCEPT ![t] = NoCall]

(***************************************************************************)
(* Trace validation                                                        *)
(***************************************************************************)
\* opcodes no entity may use during validation
BannedOpCodes ==
    {"GASPRICE", "GASLIMIT", "DIFFICULTY", "TIMESTAMP", "BASEFEE", "BLOCKHASH",
     "NUMBER", "SELFBALANCE", "BALANCE", "ORIGIN", "GAS", "CREATE", "COINBASE",
     "SELFDESTRUCT"}

\* opcodes an unstaked entity may not use in addition
BannedUnstakedOpCodes == {"CREATE2"}

create2OpCode == "CREATE2"

\* tracer.CallFromAiMiddlewareInfo of a call that did nothing of note, and
\* the zero value newKnownEntity starts from
NoOpcodes == [o \in {} |-> 0]
NoAccess == [a \in {} |-> [Reads |-> {}, Writes |-> {}]]
EmptyInfo ==
    [Opcodes |-> NoOpcodes, OOG |-> FALSE, ExtCodeAccessMw |-> FALSE,
     Access |-> NoAccess, ContractSize |-> [a \in {} |-> 0]]

\* what the top-level call to one entity does during validation
CallInfos ==
    {EmptyInfo,
     [EmptyInfo EXCEPT !.Opcodes = [o \in {"TIMESTAMP"} |-> 1]],
     [EmptyInfo EXCEPT !.Opcodes = [o \in {"SLOAD"} |-> 2]],
     [EmptyInfo EXCEPT !.Opcodes = [o \in {create2OpCode} |-> 1]],
     [EmptyInfo EXCEPT !.Opcodes = [o \in {create2OpCode} |-> 2]],
     [EmptyInfo EXCEPT !.OOG = TRUE],
     [EmptyInfo EXCEPT !.ExtCodeAccessMw = TRUE]}

\* res.CallsFromAiMiddleware of the trace of simulateValidation(op): the
\* middleware calls the sender creator when the op has init code, then the
\* account, then the paymaster when the op has one
CallsFromAiMiddleware(op, tr) ==
    (IF GetFactory(op) # ZeroAddress
     THEN <<[TopLevelTargetAddress |-> "SenderCreator",
             TopLevelMethodSig |-> "createSender", Info |-> tr.factory]>>
     ELSE <<>>)
    \o <<[TopLevelTargetAddress |-> op.sender,
          TopLevelMethodSig |-> "validateAiOp", Info |-> tr.account]>>
    \o (IF GetPaymaster(op) # ZeroAddress
        THEN <<[TopLevelTargetAddress |-> GetPaymaster(op),
                TopLevelMethodSig |-> "validatePaymasterAiOp",
                Info |-> tr.paymaster]>>
        ELSE <<>>)

RECURSIVE ClassifyCalls(_, _, _)
\* the loop of newKnownEntity: a later call to the same entity overwrites
\* the info of an earlier one
ClassifyCalls(op, calls, acc) ==
    IF calls = <<>> THEN acc
    ELSE LET c == Head(calls)
         IN  ClassifyCalls(op, Tail(calls),
                IF c.TopLevelTargetAddress = op.sender
                THEN [acc EXCEPT !.account = c.Info]
                ELSE IF c.TopLevelTargetAddress = GetPaymaster(op)
                THEN [acc EXCEPT !.paymaster = c.Info]
                ELSE IF c.TopLevelMethodSig = "createSender"
                THEN [acc EXCEPT !.factory = c.Info]
                ELSE acc)

newKnownEntity(op, calls, stk) ==
    LET info == ClassifyCalls(op, calls, [account |-> EmptyInfo, factory |-> EmptyInfo,
                                          paymaster |-> EmptyInfo])
    IN  [account   |-> [Address |-> op.sender, Info |-> info.account,
                        IsStaked |-> stk.sender],
         factory   |-> [Address |-> GetFactory(op), Info |-> info.factory,
                        IsStaked |-> stk.factory],
         paymaster |-> [Address |-> GetPaymaster(op), Info |-> info.paymaster,
                        IsStaked |-> stk.paymaster]]

EntityTitles == {"account", "factory", "paymaster"}

\* an entity check that looks at the opcodes of unstaked entities only
EntityErrsUnstakedOnly(title, entity) ==
    IF entity.Info.OOG THEN {<<title, "OOG">>}
    ELSE IF entity.Info.ExtCodeAccessMw THEN {<<title, "forbidden EXTCODE* access">>}
    ELSE {<<title, "unstaked uses banned opcode">> :
             o \in {x \in DOMAIN entity.Info.Opcodes :
                      ~entity.IsStaked /\ x \in BannedUnstakedOpCodes \cup BannedOpCodes}}

\* the errors one round of the loop over knownEntity can return for an
\* entity: out of gas, EXTCODE* access to the middleware, or the first
\* offending opcode the range over the opcode map comes across
EntityErrs(title, entity) ==
    IF entity.Info.OOG THEN {<<title, "OOG">>}
    ELSE IF entity.Info.ExtCodeAccessMw THEN {<<title, "forbidden EXTCODE* access">>}
    ELSE {<<title, "uses banned opcode">> :
             o \in DOMAIN entity.Info.Opcodes \cap BannedOpCodes}
         \cup {<<title, "unstaked uses banned opcode">> :
                 o \in {x \in DOMAIN entity.Info.Opcodes :
                          ~entity.IsStaked /\ x \in BannedUnstakedOpCodes}}

\* a CREATE2 check that looks at the factory only
Create2ErrFactoryOnly(op, ke) ==
    IF create2OpCode \in DOMAIN ke.factory.Info.Opcodes
       /\ (ke.factory.Info.Opcodes[create2OpCode] > 1 \/ GetFactory(op) = ZeroAddress)
    THEN <<"factory", "too many CREATE2">>
    ELSE <<"none", "">>

\* the checks on CREATE2 after the loop
Create2Err(op, ke) ==
    LET used(t)  == create2OpCode \in DOMAIN ke[t].Info.Opcodes
    IN  IF used("factory")
           /\ (ke.factory.Info.Opcodes[create2OpCode] > 1
               \/ GetFactory(op) = ZeroAddress)
        THEN <<"factory", "too many CREATE2">>
        ELSE IF used("account") THEN <<"account", "uses banned opcode">>
        ELSE IF used("paymaster") THEN <<"paymaster", "uses banned opcode">>
        ELSE <<"none", "">>

\* crypto.Keccak256 on the pre-images the model uses: a pre-image is the
\* 32-byte padded address it starts with and the rest of its bytes; the
\* hashes differ and lie more than associatedSlotOffset apart
Keccak256(k) ==
    (CASE k.prefix = S1 -> 1000 [] k.prefix = F1 -> 3000 [] k.prefix = P1 -> 5000
       [] OTHER -> 7000) + 500 * k.rest

associatedSlotOffset == 128

\* newStorageSlotsByEntity: for every address of stakes other than 0x the
\* hashes of the pre-images that start with the padded address
newStorageSlotsByEntity(stakeAddrs, keccak) ==
    [addr \in stakeAddrs \ {ZeroAddress} |->
        {Keccak256(k) : k \in {x \in keccak : x.prefix = addr}}]

\* slotsByEntity[addr], the empty set for an address without an entry
SlotsOf(slotsByEntity, addr) ==
    IF addr \in DOMAIN slotsByEntity THEN slotsByEntity[addr] ELSE {}

isAssociatedWith(entitySlots, slot) ==
    \E entitySlot \in entitySlots :
        slot >= entitySlot /\ slot <= entitySlot + associatedSlotOffset

rip7212precompile == "0x100"

isRIP7212Call(isRIP7212Supported, addr) ==
    isRIP7212Supported /\ addr = rip7212precompile

\* addr2KnownEntity
addr2KnownEntity(op, addr) ==
    IF addr = GetFactory(op) THEN "factory"
    ELSE IF addr = op.sender THEN "account"
    ELSE IF addr = GetPaymaster(op) THEN "paymaster"
    ELSE addr

\* what the loop over the slots of one access decides for a slot:
\* "continue", "mustStake", "altMempool" or "forbidden"
SlotVerdict(v, addr, mode, slot) ==
    IF isAssociatedWith(v.SenderSlots, slot)
    THEN IF (v.HasInitCode /\ ~v.FactoryIsStaked)
            \/ (v.HasInitCode /\ v.FactoryIsStaked /\ v.EntityAddr # v.Op.sender)
         THEN "mustStake" ELSE "continue"
    ELSE LET amIds == {x \in v.AltMempools :
                          x = <<v.EntityName, addr2KnownEntity(v.Op, addr), slot>>}
         IN  IF (isAssociatedWith(v.EntitySlots, slot) \/ mode = "read") /\ amIds = {}
             THEN "mustStake"
             ELSE IF amIds # {} THEN "altMempool"
             ELSE "forbidden"

\* the accesses of one entry of the access map as (mode, slot) pairs
AccessPairs(access) ==
    {<<"read", x>> : x \in access.Reads} \cup {<<"write", x>> : x \in access.Writes}

\* storageSlotsValidator.Process: the errors it can return, <<"none", "">>
\* alone when it returns none
ProcessSlots(v) ==
    LET sizeErrs ==
            {<<v.EntityName, "uses an address with no deployed code">> :
                ca \in {x \in DOMAIN v.EntityContractSizeMap :
                          /\ x # v.Op.sender
                          /\ v.EntityContractSizeMap[x] = 0
                          /\ ~isRIP7212Call(v.IsRIP7212Supported, x)}}
        addrs == {x \in DOMAIN v.EntityAccessMap : x # v.Op.sender /\ x # v.AiMiddleware}
        verdicts(addr) ==
            {SlotVerdict(v, addr, pr[1], pr[2]) :
                pr \in AccessPairs(v.EntityAccessMap[addr])}
        addrErrs(addr) ==
            IF "forbidden" \in verdicts(addr)
            THEN {<<v.EntityName, "has forbidden access">>}
            ELSE IF "mustStake" \in verdicts(addr) /\ ~v.EntityIsStaked
            THEN {<<v.EntityName, "unstaked accessed slot">>}
            ELSE {}
        accessErrs == UNION {addrErrs(addr) : addr \in addrs}
    IN  IF sizeErrs # {} THEN sizeErrs
        ELSE IF accessErrs # {} THEN accessErrs
        ELSE {<<"none", "">>}

\* the validator TraceSimulateValidation builds for one entity
ValidatorOf(op, mw, tr, ke, title) ==
    LET slotsByEntity ==
            newStorageSlotsByEntity({op.sender, GetFactory(op), GetPaymaster(op)},
                                    tr.Keccak)
    IN  [Op |-> op, AiMiddleware |-> mw, AltMempools |-> tr.AltMempools,
         IsRIP7212Supported |-> tr.IsRIP7212Supported,
         HasInitCode |-> GetFactory(op) # ZeroAddress,
         SenderSlots |-> SlotsOf(slotsByEntity, op.sender),
         FactoryIsStaked |-> ke.factory.IsStaked,
         EntityName |-> title, EntityAddr |-> ke[title].Address,
         EntityAccessMap |-> ke[title].Info.Access,
         EntityContractSizeMap |-> ke[title].Info.ContractSize,
         EntitySlots |-> SlotsOf(slotsByEntity, ke[title].Address),
         EntityIsStaked |-> ke[title].IsStaked]

\* the value rule applied to every frame, whatever its method
FrameErrValueFirst(op, mw, ke, call) ==
    IF call.To # mw /\ call.Value > 0
    THEN <<addr2KnownEntity(op, call.From), "forbidden value transfer">>
    ELSE <<"none", "">>

\* the checks on one frame of the call stack
FrameErr(op, mw, ke, call) ==
    IF call.Method = "validatePaymasterAiOp"
    THEN IF call.Return = "undecodable" THEN <<"op", "unexpected tracing result">>
         ELSE IF call.Return = "context" /\ ~ke.paymaster.IsStaked
         THEN <<"paymaster", "unstaked paymaster must not return context">>
         ELSE <<"none", "">>
    ELSE IF call.To = mw /\ call.Method = "balanceOf"
    THEN <<addr2KnownEntity(op, call.From), "cannot call balanceOf on AiMiddleware">>
    ELSE IF call.To # mw /\ call.Value > 0
    THEN <<addr2KnownEntity(op, call.From), "forbidden value transfer">>
    ELSE <<"none", "">>

RECURSIVE CallStackErr(_, _, _, _)
\* the loop over the call stack: the error of the first frame that has one
CallStackErr(op, mw, ke, calls) ==
    IF calls = <<>> THEN <<"none", "">>
    ELSE IF FrameErr(op, mw, ke, Head(calls))[1] # "none"
    THEN FrameErr(op, mw, ke, Head(calls))
    ELSE CallStackErr(op, mw, ke, Tail(calls))

\* simulation.TraceSimulateValidation: the errors it can return (the order
\* of a range over a map is not fixed), <<"none", "">> alone when it
\* returns none
TraceSimulateValidation(op, tr, stk) ==
    LET ke    == newKnownEntity(op, CallsFromAiMiddleware(op, tr), stk)
        errs  == UNION {EntityErrs(t, ke[t]) : t \in EntityTitles}
        slots == UNION {ProcessSlots(ValidatorOf(op, MW1, tr, ke, t)) \ {<<"none", "">>} :
                          t \in EntityTitles}
    IN  IF errs # {} THEN errs
        ELSE IF Create2Err(op, ke)[1] # "none" THEN {Create2Err(op, ke)}
        ELSE IF slots # {} THEN slots
        ELSE {CallStackErr(op, MW1, ke, tr.Calls)}

\* --- the same validation with its loops run element by element: a range
\* over a Go map visits the keys in any order, and a return inside the loop
\* ends it.  Each operator gives the set of results over all orders.
NoErr == <<"none", "">>

RECURSIVE OpcodeRange(_, _, _)
\* for opcode := range entity.Info.Opcodes, rest being the opcodes not yet
\* visited
OpcodeRange(title, entity, rest) ==
    IF rest = {} THEN {NoErr}
    ELSE UNION {IF o \in BannedOpCodes THEN {<<title, "uses banned opcode">>}
                ELSE IF ~entity.IsStaked /\ o \in BannedUnstakedOpCodes
                THEN {<<title, "unstaked uses banned opcode">>}
                ELSE OpcodeRange(title, entity, rest \ {o}) : o \in rest}

RECURSIVE EntityRange(_, _, _)
\* the first loop over knownEntity; ic is the set of touched contracts
EntityRange(ke, rest, ic) ==
    IF rest = {} THEN {[err |-> NoErr, ic |-> ic]}
    ELSE UNION {
           IF ke[t].Info.OOG THEN {[err |-> <<t, "OOG">>, ic |-> {}]}
           ELSE IF ke[t].Info.ExtCodeAccessMw
           THEN {[err |-> <<t, "forbidden EXTCODE* access">>, ic |-> {}]}
           ELSE UNION {IF r # NoErr THEN {[err |-> r, ic |-> {}]}
                       ELSE EntityRange(ke, rest \ {t},
                                ic \cup {ke[t].Address}
                                   \cup DOMAIN ke[t].Info.ContractSize) :
                          r \in OpcodeRange(t, ke[t], DOMAIN ke[t].Info.Opcodes)} :
           t \in rest}

RECURSIVE ContractSizeRange(_, _)
\* for ca, csi := range v.EntityContractSizeMap
ContractSizeRange(v, rest) ==
    IF rest = {} THEN {NoErr}
    ELSE UNION {IF /\ ca # v.Op.sender
                   /\ v.EntityContractSizeMap[ca] = 0
                   /\ ~isRIP7212Call(v.IsRIP7212Supported, ca)
                THEN {<<v.EntityName, "uses an address with no deployed code">>}
                ELSE ContractSizeRange(v, rest \ {ca}) : ca \in rest}

RECURSIVE SlotRangeClearing(_, _, _, _, _)
\* a loop over the slots in which a slot that needs no stake clears
\* mustStakeSlot
SlotRangeClearing(v, addr, rest, must, ids) ==
    IF rest = {} THEN {[err |-> NoErr, must |-> must, ids |-> ids]}
    ELSE UNION {
           LET vd == SlotVerdict(v, addr, pr[1], pr[2])
           IN  IF vd = "forbidden"
               THEN {[err |-> <<v.EntityName, "has forbidden access">>,
                      must |-> must, ids |-> ids]}
               ELSE SlotRangeClearing(v, addr, rest \ {pr},
                        vd = "mustStake",
                        IF vd = "altMempool"
                        THEN ids \cup {<<v.EntityName, addr, pr[1], pr[2]>>}
                        ELSE ids) :
           pr \in rest}

RECURSIVE SlotRange(_, _, _, _, _)
\* the loops over the access types and the slots of one address: rest holds
\* the (mode, slot) pairs not yet visited, must whether mustStakeSlot is
\* set, ids the alt-mempool ids collected so far, one for each access with
\* an exception
SlotRange(v, addr, rest, must, ids) ==
    IF rest = {} THEN {[err |-> NoErr, must |-> must, ids |-> ids]}
    ELSE UNION {
           LET vd == SlotVerdict(v, addr, pr[1], pr[2])
           IN  IF vd = "forbidden"
               THEN {[err |-> <<v.EntityName, "has forbidden access">>,
                      must |-> must, ids |-> ids]}
               ELSE SlotRange(v, addr, rest \ {pr},
                        must \/ vd = "mustStake",
                        IF vd = "altMempool"
                        THEN ids \cup {<<v.EntityName, addr, pr[1], pr[2]>>}
                        ELSE ids) :
           pr \in rest}

RECURSIVE AccessRange(_, _, _)
\* for addr, access := range v.EntityAccessMap
AccessRange(v, rest, ids) ==
    IF rest = {} THEN {[err |-> NoErr, ids |-> ids]}
    ELSE UNION {
           IF addr = v.Op.sender \/ addr = v.AiMiddleware
           THEN AccessRange(v, rest \ {addr}, ids)
           ELSE UNION {IF r.err # NoErr THEN {[err |-> r.err, ids |-> r.ids]}
                       ELSE IF r.must /\ ~v.EntityIsStaked
                       THEN {[err |-> <<v.EntityName, "unstaked accessed slot">>,
                              ids |-> r.ids]}
                       ELSE AccessRange(v, rest \ {addr}, r.ids) :
                          r \in SlotRange(v, addr, AccessPairs(v.EntityAccessMap[addr]),
                                          FALSE, ids)} :
           addr \in rest}

\* storageSlotsValidator.Process, loop by loop
ProcessRange(v) ==
    UNION {IF e # NoErr THEN {[err |-> e, ids |-> {}]}
           ELSE AccessRange(v, DOMAIN v.EntityAccessMap, {}) :
              e \in ContractSizeRange(v, DOMAIN v.EntityContractSizeMap)}

RECURSIVE ValidatorRange(_, _, _, _, _)
\* the second loop over knownEntity: v.Process() for each entity, its ids
\* appended to altMempoolIds
ValidatorRange(op, tr, ke, rest, ids) ==
    IF rest = {} THEN {[err |-> NoErr, ids |-> ids]}
    ELSE UNION {
           UNION {IF r.err # NoErr THEN {[err |-> r.err, ids |-> {}]}
                  ELSE ValidatorRange(op, tr, ke, rest \ {t}, ids \cup r.ids) :
                     r \in ProcessRange(ValidatorOf(op, MW1, tr, ke, t))} :
           t \in rest}

\* what TraceSimulateValidation returns when it returns an error
Rejected(err) == [err |-> err, TouchedContracts |-> {}, AltMempoolIds |-> {}]

\* TraceSimulateValidation, loop by loop: the error, or no error and the
\* TraceOutput, under every order of its ranges
TraceOutcomes(op, tr, stk) ==
    LET ke == newKnownEntity(op, CallsFromAiMiddleware(op, tr), stk)
    IN  UNION {
          IF e.err # NoErr THEN {Rejected(e.err)}
          ELSE IF Create2Err(op, ke) # NoErr THEN {Rejected(Create2Err(op, ke))}
          ELSE UNION {
                 IF r.err # NoErr THEN {Rejected(r.err)}
                 ELSE IF CallStackErr(op, MW1, ke, tr.Calls) # NoErr
                 THEN {Rejected(CallStackErr(op, MW1, ke, tr.Calls))}
                 ELSE {[err |-> NoErr, TouchedContracts |-> e.ic,
                        AltMempoolIds |-> r.ids]} :
                 r \in ValidatorRange(op, tr, ke, EntityTitles, {})} :
          e \in EntityRange(ke, EntityTitles, {})}

\* check.SimulateOp: an error of the trace validation rejects the op
SimulateOp(traceErr) ==
    IF traceErr[1] = "none" THEN "none" ELSE "RejectedByEpOrAccount"

(***************************************************************************)
(* Gas overhead                                                            *)
(***************************************************************************)
\* gas.NewDefaultOverhead
DefaultOverhead ==
    [intrinsicFixed |-> 21000, perAiOpFixed |-> 22874, perAiOpMultiplier |-> 25,
     zeroByte |-> 4, nonZeroByte |-> 16, minBundleSize |-> 1]

\* Overhead.CalcCallDataCost over the packed bytes
CalcCallDataCost(ov, op) ==
    op.zeroBytes * ov.zeroByte + op.nonZeroBytes * ov.nonZeroByte

\* Overhead.CalcPerAiOpCost: multiplier * length in words + fixed
CalcPerAiOpCost(ov, op) ==
    ov.perAiOpMultiplier * ((op.zeroBytes + op.nonZeroBytes + 31) \div 32)
      + ov.perAiOpFixed

\* Overhead.CalcPreVerificationGas with calcPVGFuncNoop: the static value
CalcPreVerificationGas(ov, op) ==
    (ov.intrinsicFixed \div ov.minBundleSize) + CalcCallDataCost(ov, op)
      + CalcPerAiOpCost(ov, op)

(***************************************************************************)
(* Batch handlers                                                          *)
(***************************************************************************)
\* bundler.adjustBatchSize
adjustBatchSize(max, b) ==
    IF Len(b) > max /\ max > 0 THEN SubSeq(b, 1, max) ELSE b

\* gas an op adds to the batch: maxGasAvailable - preVerificationGas + static
BatchGasOf(op) ==
    (GetMaxGasAvailable(op) - op.preVerificationGas)
      + CalcPreVerificationGas(DefaultOverhead, op)

RECURSIVE GasLimitLoopInclusive(_, _, _, _)
GasLimitLoopInclusive(b, sum, cap, bat) ==
    IF b = <<>> THEN bat
    ELSE LET next == sum + BatchGasOf(Head(b))
         IN  IF next > cap THEN bat
             ELSE GasLimitLoopInclusive(Tail(b), next, cap, Append(bat, Head(b)))

RECURSIVE GasLimitLoop(_, _, _, _)
\* the for loop of MaintainGasLimit: rest of the batch, running sum, kept ops
GasLimitLoop(b, sum, cap, bat) ==
    IF b = <<>> THEN bat
    ELSE LET next == sum + BatchGasOf(Head(b))
         IN  IF next >= cap THEN bat
             ELSE GasLimitLoop(Tail(b), next, cap, Append(bat, Head(b)))

RECURSIVE GasLimitLoopSkipping(_, _, _, _)
\* a loop that passes over an op that does not fit and goes on
GasLimitLoopSkipping(b, sum, cap, bat) ==
    IF b = <<>> THEN bat
    ELSE LET next == sum + BatchGasOf(Head(b))
         IN  IF next >= cap THEN GasLimitLoopSkipping(Tail(b), sum, cap, bat)
             ELSE GasLimitLoopSkipping(Tail(b), next, cap, Append(bat, Head(b)))

MaintainGasLimitSkipping(b, cap) == GasLimitLoopSkipping(b, 0, cap, <<>>)

MaintainGasLimitInclusive(b, cap) == GasLimitLoopInclusive(b, 0, cap, <<>>)

\* batch.MaintainGasLimit: ctx.Batch after the handler
MaintainGasLimit(b, cap) == GasLimitLoop(b, 0, cap, <<>>)

\* BatchHandlerCtx.MarkOpIndexForRemoval (index counted from 0): the batch
\* without the op at index, and the op appended to PendingRemoval; nothing
\* changes when the batch has no such index
MarkOpIndexForRemoval(c, index) ==
    IF index + 1 \in 1..Len(c.batch)
    THEN [batch |-> SubSeq(c.batch, 1, index)
                      \o SubSeq(c.batch, index + 2, Len(c.batch)),
          pendingRemoval |-> Append(c.pendingRemoval, c.batch[index + 1])]
    ELSE c

RECURSIVE MarkOps(_, _)
\* a handler that walks the batch and marks every op that is in set D
MarkOps(c, D) ==
    IF \E i \in 1..Len(c.batch) : c.batch[i] \in D
    THEN MarkOps(MarkOpIndexForRemoval(c,
                    (CHOOSE i \in 1..Len(c.batch) :
                        /\ c.batch[i] \in D
                        /\ \A j \in 1..(i-1) : c.batch[j] \notin D) - 1), D)
    ELSE c

\* effective gas price min(maxFeePerGas, maxPriorityFeePerGas + baseFee)
GetDynamicGasPrice(op, baseFee) ==
    IF op.maxFeePerGas < op.maxPriorityFeePerGas + baseFee
    THEN op.maxFeePerGas ELSE op.maxPriorityFeePerGas + baseFee

\* ordering of a sort handler: by effective gas price (descending), or by
\* nonce among the ops of one sender (ascending)
Before(mode, baseFee, x, y) ==
    IF mode = "gasprice"
    THEN GetDynamicGasPrice(x, baseFee) > GetDynamicGasPrice(y, baseFee)
    ELSE x.sender = y.sender /\ x.nonce < y.nonce

RECURSIVE InsertBy(_, _, _, _)
\* op put into the sorted q in front of the first element it goes before
InsertBy(q, op, mode, baseFee) ==
    IF q = <<>> THEN <<op>>
    ELSE IF Before(mode, baseFee, op, Head(q)) THEN <<op>> \o q
         ELSE <<Head(q)>> \o InsertBy(Tail(q), op, mode, baseFee)

RECURSIVE StableSort(_, _, _)
\* sort.SliceStable
StableSort(q, mode, baseFee) ==
    IF q = <<>> THEN <<>>
    ELSE InsertBy(StableSort(SubSeq(q, 1, Len(q) - 1), mode, baseFee), q[Len(q)],
                  mode, baseFee)

\* gasprice.SortByGasPrice: highest effective gas price first
SortByGasPrice(b, baseFee) == StableSort(b, "gasprice", baseFee)

\* gasprice.FilterUnderpriced: keep the ops that pay the base fee
FilterUnderpriced(b, baseFee) ==
    SeqFilterOut(b, {o \in Range(b) : GetDynamicGasPrice(o, baseFee) < baseFee})

\* batch.SortByNonce: ops of one sender in ascending nonce
SortByNonce(b) == StableSort(b, "nonce", 0)

RECURSIVE PaymasterTail(_, _, _)
\* ops of paymasters whose deposit does not cover the prefund summed so far
PaymasterTail(b, left, short) ==
    IF b = <<>> THEN short
    ELSE LET op == Head(b)
             pm == GetPaymaster(op)
             need == GetMaxGasAvailable(op) * op.maxFeePerGas
         IN  IF pm = ZeroAddress THEN PaymasterTail(Tail(b), left, short)
             ELSE IF need > left THEN PaymasterTail(Tail(b), left, short \cup {op})
             ELSE PaymasterTail(Tail(b), left - need, short)

\* what the chain and the clock answer during one Process run
QuietEnv ==
    [expired |-> {}, baseFee |-> 50, codeChanged |-> {}, deposit |-> 2000000000,
     simFailed |-> {}]

\* the batch as it reaches MaintainGasLimit: the handlers before it in the
\* order of b.UseModules
BeforeGasLimit(b0, env) ==
    LET c1 == MarkOps([batch |-> b0, pendingRemoval |-> <<>>], env.expired)
    IN  SortByNonce(FilterUnderpriced(SortByGasPrice(c1.batch, env.baseFee),
                                      env.baseFee))

\* handlers in which the ops cut by the gas limit are marked for removal
PreSubmitRemovingCut(b0, env, cap) ==
    LET c1 == MarkOps([batch |-> b0, pendingRemoval |-> <<>>], env.expired)
        b4 == BeforeGasLimit(b0, env)
        b5 == MaintainGasLimit(b4, cap)
        c5 == MarkOps([batch |-> b4, pendingRemoval |-> c1.pendingRemoval],
                      Range(b4) \ Range(b5))
        c6 == MarkOps(c5, env.codeChanged)
        c7 == MarkOps(c6, PaymasterTail(c6.batch, env.deposit, {}))
    IN  MarkOps(c7, env.simFailed)

\* the handlers of Process before the submitter, in the order of b.UseModules
PreSubmit(b0, env, cap) ==
    LET c1 == MarkOps([batch |-> b0, pendingRemoval |-> <<>>], env.expired)
        b4 == BeforeGasLimit(b0, env)
        b5 == MaintainGasLimit(b4, cap)
        c6 == MarkOps([batch |-> b5, pendingRemoval |-> c1.pendingRemoval],
                      env.codeChanged)
        c7 == MarkOps(c6, PaymasterTail(c6.batch, env.deposit, {}))
    IN  MarkOps(c7, env.simFailed)


(***************************************************************************)
(* Operations                                                              *)
(***************************************************************************)
TickVars == <<bpc, batch, pendingRemoval, optsBatch, reverts, sent>>
ConfVars == <<repConst, maxBatchGasLimit, maxBatch, builder>>
RepVars == <<opsSeen, opsIncluded>>

\* gas fields of the ops of the model: 640 packed bytes, of which 400 zero
OpShape(s, n, f, p, fee, cgl) ==
    MkOp(s, n, f, p, fee, fee, cgl, 100000, 50000, 400, 240)

\* the ops clients send: nonce 0 at two prices, nonce 1 with a factory or a
\* paymaster
IngressOps ==
    {OpShape(S1, 0, ZeroAddress, ZeroAddress, 100, 6850186),
     OpShape(S1, 0, ZeroAddress, ZeroAddress, 110, 6850186),
     OpShape(S1, 1, F1, ZeroAddress, 100, 6850186),
     OpShape(S1, 1, ZeroAddress, P1, 100, 6850186)}

\* Mempool.AddOp called on its own
DoAddOp(mw, op) ==
    /\ mempool' = AddOp(mempool, mw, op)
    /\ resp' = Resp("AddOp", [mw |-> mw, op |-> op], AddOpErr(mempool, mw, op),
                    IF KeyPos(mempool.ops[mw], MemKey(op)) # 0 THEN "duplicate"
                    ELSE "new")
    /\ UNCHANGED <<RepVars, ConfVars, TickVars, fn, txs, dbg, loop, inflight>>

\* Mempool.RemoveOps called on its own
DoRemoveOps(mw, ops) ==
    /\ ops # {}
    /\ mempool' = RemoveOps(mempool, mw, ops)
    /\ resp' = Resp("RemoveOps", [mw |-> mw, ops |-> ops], "none", "")
    /\ UNCHANGED <<RepVars, ConfVars, TickVars, fn, txs, dbg, loop, inflight>>

\* Debug.ClearState: clears the mempool
ClearState ==
    /\ mempool' = Clear(mempool)
    /\ resp' = Resp("debug_bundler_clearState", NoReq, "none", "")
    /\ UNCHANGED <<RepVars, ConfVars, TickVars, fn, txs, dbg, loop, inflight>>

\* overrideEntity: the counters of the entry's address are replaced verbatim
overrideEntity(rep, entry) ==
    [opsSeen     |-> [rep.opsSeen EXCEPT ![entry.address] = entry.opsSeen],
     opsIncluded |-> [rep.opsIncluded EXCEPT ![entry.address] = entry.opsIncluded]]

RECURSIVE OverrideAll(_, _)
OverrideAll(rep, entries) ==
    IF entries = <<>> THEN rep
    ELSE OverrideAll(overrideEntity(rep, Head(entries)), Tail(entries))

\* Debug.SetReputation -> Reputation.Override
SetReputation(entries) ==
    LET rep == OverrideAll([opsSeen |-> opsSeen, opsIncluded |-> opsIncluded], entries)
    IN  /\ opsSeen' = rep.opsSeen
        /\ opsIncluded' = rep.opsIncluded
        /\ resp' = Resp("debug_bundler_setReputation", NoReq, "none", "")
        /\ UNCHANGED <<mempool, ConfVars, TickVars, fn, txs, dbg, loop, inflight>>

\* entries of debug_bundler_setReputation: reset an entity, or set opsSeen
\* to the value that makes it throttled or banned
OverrideEntries ==
    {[address |-> a, opsSeen |-> sn, opsIncluded |-> 0] :
        a \in {S1, F1, P1}, sn \in {0, 2, 3}}

\* Bundler.Process up to the submitter: Dump, adjustBatchSize and the batch
\* handlers before SendAiOperation, which copies ctx.Batch into opts
StartProcess(mw, env) ==
    /\ bpc = "idle"
    /\ Len(Dump(mempool, mw)) > 0
    /\ LET b0 == adjustBatchSize(maxBatch, Dump(mempool, mw))
           c  == PreSubmit(b0, env, maxBatchGasLimit)
       IN  /\ batch' = c.batch
           /\ pendingRemoval' = c.pendingRemoval
           /\ optsBatch' = c.batch
    /\ bpc' = "estimate"
    /\ reverts' = 0
    /\ sent' = <<>>
    /\ resp' = Resp("Process", [mw |-> mw, env |-> env], "none", "SendAiOperation")
    /\ UNCHANGED <<mempool, RepVars, ConfVars, fn, txs, dbg>>

\* a run of Process on its own
Process(mw, env) == StartProcess(mw, env) /\ UNCHANGED <<loop, inflight>>

AbortProcessCleaning(err, note) ==
    /\ bpc' = "idle"
    /\ batch' = <<>>
    /\ pendingRemoval' = <<>>
    /\ optsBatch' = <<>>
    /\ reverts' = 0
    /\ resp' = Resp("Process", NoReq, err, note)
    /\ mempool' = RemoveOps(mempool, MW1, Range(batch) \cup Range(pendingRemoval))
    /\ UNCHANGED <<RepVars, ConfVars, sent, fn, txs, dbg, loop, inflight>>

\* a failing handler ends the Process run; the context is dropped
AbortProcess(err, note) ==
    /\ bpc' = "idle"
    /\ batch' = <<>>
    /\ pendingRemoval' = <<>>
    /\ optsBatch' = <<>>
    /\ reverts' = 0
    /\ resp' = Resp("Process", NoReq, err, note)
    /\ UNCHANGED <<mempool, RepVars, ConfVars, sent, fn, txs, dbg, loop, inflight>>

MaxSpin == 1

\* one iteration of the estimation loop of SendAiOperation:
\* transaction.EstimateHandleOpsGas(&opts) answers with a gas estimate, an
\* error, or a FailedOp revert naming an index of opts.Batch
EstimateHandleOpsGas(out) ==
    /\ bpc = "estimate"
    /\ Len(batch) > 0
    /\ reverts < Len(optsBatch) + MaxSpin
    /\ CASE out.kind = "gas" ->
              /\ bpc' = "send"
              /\ UNCHANGED <<mempool, RepVars, ConfVars, batch, pendingRemoval,
                             optsBatch, reverts, sent, resp, fn, txs, dbg, loop, inflight>>
         [] out.kind = "error" -> AbortProcess("Internal", "EstimateHandleOpsGas")
         [] out.kind = "FailedOp" ->
              LET c == MarkOpIndexForRemoval(
                          [batch |-> batch, pendingRemoval |-> pendingRemoval],
                          out.opIndex)
              IN  /\ batch' = c.batch
                  /\ pendingRemoval' = c.pendingRemoval
                  /\ reverts' = reverts + 1
                  /\ UNCHANGED <<mempool, RepVars, ConfVars, bpc, optsBatch, sent,
                                 resp, fn, txs, dbg, loop, inflight>>

\* answers to an estimate of batch b: a revert names the first or the last
\* op of b
EstimateOutcomes(b) ==
    {[kind |-> "gas", opIndex |-> 0], [kind |-> "error", opIndex |-> 0]}
      \cup {[kind |-> "FailedOp", opIndex |-> i] : i \in {0, Len(b) - 1}}

\* a submitter that forgets the dropped ops when it has nothing to send
SkipEmptyBatchForgetting ==
    /\ bpc = "estimate"
    /\ Len(batch) = 0
    /\ bpc' = "finish"
    /\ pendingRemoval' = <<>>
    /\ UNCHANGED <<mempool, RepVars, ConfVars, batch, optsBatch,
                   reverts, sent, resp, fn, txs, dbg, loop, inflight>>

\* the loop is over with an empty batch: SendAiOperation returns nil
SkipEmptyBatch ==
    /\ bpc = "estimate"
    /\ Len(batch) = 0
    /\ bpc' = "finish"
    /\ UNCHANGED <<mempool, RepVars, ConfVars, batch, pendingRemoval, optsBatch,
                   reverts, sent, resp, fn, txs, dbg, loop, inflight>>

MaxTxs == 2

Builders == {"builder1", "builder2"}

\* target blocks of one broadcast (blocksInTheFuture of the builder client)
BroadcastBlocks == 1..2

\* answers to the submit: whether transaction.HandleOps builds the
\* transaction, which eth_sendBundle calls succeed, whether the transaction
\* is seen on chain before the wait times out
SubmitAnswers ==
    [built : BOOLEAN, accepted : SUBSET (Builders \X BroadcastBlocks),
     included : BOOLEAN]

\* a broadcast that is given up as soon as one call fails
BroadcastFailsIfAnyError(ans) == ans.accepted # Builders \X BroadcastBlocks

\* the eth_sendBundle calls of the broadcast loop: every builder of the rpc
\* for each of blocksInTheFuture target blocks
BroadcastCalls == builder.builders \X (1..builder.blocksInTheFuture)

\* a broadcast that counts the answer of a builder that was never called
BroadcastFailsUncalled(ans) == ans.accepted = {}

\* shouldFail after the broadcast loop: no call returned without error
BroadcastFails(ans) == ans.accepted \cap BroadcastCalls = {}

\* the rest of SendAiOperation: transaction.HandleOps(&opts) with NoSend,
\* the broadcast to every builder for every target block, and
\* transaction.Wait
HandleOps(ans) ==
    /\ bpc = "send"
    /\ IF ~ans.built THEN AbortProcess("Internal", "HandleOps")
       ELSE IF BroadcastFails(ans)
       THEN AbortProcess("FlashbotsBroadcastBundle", "BroadcastBundle")
       ELSE /\ Len(txs) < MaxTxs
            /\ txs' = Append(txs, optsBatch)
            /\ sent' = optsBatch
            /\ IF ans.included
               THEN /\ bpc' = "finish"
                    /\ resp' = Resp("Process", [accepted |-> ans.accepted],
                                    "none", "Wait")
                    /\ UNCHANGED <<mempool, RepVars, ConfVars, batch, pendingRemoval,
                                   optsBatch, reverts, dbg, loop, inflight, fn>>
               ELSE /\ bpc' = "idle"
                    /\ batch' = <<>>
                    /\ pendingRemoval' = <<>>
                    /\ optsBatch' = <<>>
                    /\ reverts' = 0
                    /\ resp' = Resp("Process", NoReq, "Internal", "Wait")
                    /\ UNCHANGED <<mempool, RepVars, ConfVars, dbg, loop, inflight, fn>>

\* the handlers after the submitter: Reputation.IncOpsIncluded and Clean
FinishProcess(mw) ==
    /\ bpc = "finish"
    /\ opsIncluded' = IncOpsIncluded(opsIncluded, batch)
    /\ mempool' = RemoveOps(mempool, mw, Range(batch) \cup Range(pendingRemoval))
    /\ bpc' = "idle"
    /\ batch' = <<>>
    /\ pendingRemoval' = <<>>
    /\ optsBatch' = <<>>
    /\ reverts' = 0
    /\ resp' = Resp("Process", NoReq, "none", "done")
    /\ UNCHANGED <<opsSeen, ConfVars, sent, fn, txs, dbg, loop, inflight>>

(***************************************************************************)
(* Specifications                                                          *)
(***************************************************************************)
\* the loop as main leaves it: b.Run() has started the goroutine and its
\* ticker, no debug_bundler_setBundlingMode call is open
LoopRunning ==
    [isRunning |-> TRUE, live |-> TRUE, ticker |-> "running", tickC |-> 0,
     call |-> "idle"]

\* a builder client of two builders that broadcasts for two target blocks
DefaultBuilder == [builders |-> Builders, blocksInTheFuture |-> 2]

IdleTick ==
    /\ bpc = "idle"
    /\ builder = DefaultBuilder
    /\ inflight = [t \in Threads |-> NoCall]
    /\ loop = LoopRunning
    /\ batch = <<>>
    /\ pendingRemoval = <<>>
    /\ optsBatch = <<>>
    /\ reverts = 0
    /\ sent = <<>>
    /\ txs = <<>>
    /\ dbg = [pc |-> "idle"]

InitBase ==
    /\ opsSeen = [a \in Entities |-> 0]
    /\ opsIncluded = [a \in Entities |-> 0]
    /\ maxBatchGasLimit = 18000000
    /\ maxBatch = 0
    /\ resp = NoResp
    /\ IdleTick

\* --- the mempool on its own: AddOp, RemoveOps, Clear
MemShapes ==
    {<<100, 100, F1, ZeroAddress>>, <<110, 100, F1, ZeroAddress>>,
     <<110, 110, ZeroAddress, P1>>}

MemKeys == {<<S1, n>> : n \in 0..MaxNonce} \cup {<<S2, 0>>}

MemOps ==
    {MkOp(k[1], k[2], sh[3], sh[4], sh[1], sh[2], 6850186, 100000, 50000, 400, 240) :
        k \in MemKeys, sh \in MemShapes}

InitMempool ==
    /\ InitBase
    /\ mempool = EmptyMempool
    /\ repConst = DefaultReputationConstants
    /\ fn = [name |-> "none"]

\* the second middleware receives the ops of one key only
MemOpsOf(mw) ==
    IF mw = MW1 THEN MemOps
    ELSE {op \in MemOps : MemKey(op) = <<S1, 0>> /\ op.maxFeePerGas = 100}

NextMempool ==
    \/ \E mw \in Middlewares : \E op \in MemOpsOf(mw) : DoAddOp(mw, op)
    \/ \E mw \in Middlewares : \E op \in MemOpsOf(mw) : DoRemoveOps(mw, {op})
    \/ ClearState

SpecMempool == InitMempool /\ [][NextMempool]_vars

\* --- ingress: eth_sendAiOperation with the debug calls that set reputation
\* and clear the mempool
InitIngress ==
    /\ InitBase
    /\ mempool = EmptyMempool
    /\ repConst = SmallReputationConstants
    /\ fn = [name |-> "none"]

EthSendAiOperation ==
    \E op \in IngressOps, stk \in Stakes, ans \in ChainAnswers :
        SendAiOperation(MW1, op, stk, ans[1], ans[2])

NextIngress ==
    \/ EthSendAiOperation
    \/ \E e \in OverrideEntries : SetReputation(<<e>>)
    \/ ClearState

SpecIngress == InitIngress /\ [][NextIngress]_vars


\* --- ingress with the trace of the validation
\* what the contracts of an op do when the node traces its validation: all
\* behave, or one of them does something the bundler looks for
QuietTrace ==
    [account |-> EmptyInfo, factory |-> EmptyInfo, paymaster |-> EmptyInfo,
     Keccak |-> {}, AltMempools |-> {}, IsRIP7212Supported |-> FALSE,
     Calls |-> <<>>]

ChainTraces ==
    {QuietTrace}
    \cup {[QuietTrace EXCEPT ![t] = i] : t \in EntityTitles, i \in CallInfos}
    \cup {[QuietTrace EXCEPT
             !.account = [EmptyInfo EXCEPT !.Opcodes = [o \in {"TIMESTAMP"} |-> 1]],
             !.factory = [EmptyInfo EXCEPT !.OOG = TRUE]]}

InitTrace ==
    /\ InitBase
    /\ mempool = EmptyMempool
    /\ repConst = DefaultReputationConstants
    /\ fn \in [name : {"debug_traceCall"}, trace : ChainTraces]

\* the contracts on chain change what the trace of a validation shows
SetTrace(tr) ==
    /\ fn.name = "debug_traceCall"
    /\ fn' = [fn EXCEPT !.trace = tr]
    /\ UNCHANGED <<mempool, RepVars, ConfVars, TickVars, resp, txs, dbg, loop, inflight>>

\* eth_sendAiOperation whose SimulateOp handler validates the trace the
\* node returns
EthSendAiOperationTraced ==
    /\ fn.name = "debug_traceCall"
    /\ \E op \in IngressOps, stk \in Stakes :
       \E traceErr \in TraceSimulateValidation(op, fn.trace, stk) :
          SendAiOperation(MW1, op, stk, "none", SimulateOp(traceErr))

NextTrace ==
    \/ EthSendAiOperationTraced
    \/ \E tr \in ChainTraces : SetTrace(tr)
    \/ ClearState

SpecTrace == InitTrace /\ [][NextTrace]_vars

\* --- the trace validation applied to traces with storage accesses, calls
\* to other contracts and call frames
T1 == "T1"

\* the pre-images the tracer saw hashed: one that starts with each entity
AllKeccak == {[prefix |-> a, rest |-> 0] : a \in {S1, F1, P1}}

\* slots on and around the hashes of the sender, the factory and the paymaster
MaxSlotGap == 1
TraceSlots ==
    {1000, 1000 + associatedSlotOffset, 1000 + associatedSlotOffset + MaxSlotGap,
     3000, 5000, 5000 + associatedSlotOffset + MaxSlotGap}

\* entity t reads or writes one slot of the contract at addr
AccessTrace(t, addr, mode, slot) ==
    [QuietTrace EXCEPT
       !.Keccak = AllKeccak,
       ![t] = [EmptyInfo EXCEPT
                 !.Access = [a \in {addr} |->
                               IF mode = "read" THEN [Reads |-> {slot}, Writes |-> {}]
                               ELSE [Reads |-> {}, Writes |-> {slot}]]]]

\* entity t touches an address whose code has the given size
SizeTrace(t, addr, size, rip) ==
    [QuietTrace EXCEPT
       !.IsRIP7212Supported = rip,
       ![t] = [EmptyInfo EXCEPT !.ContractSize = [a \in {addr} |-> size]]]

Frames ==
    [From : {S1}, To : {MW1, T1}, Method : {"validatePaymasterAiOp", "balanceOf",
                                              "transfer"},
     Value : {0, 1}, Return : {"nocontext", "context", "undecodable"}]

ValidationTraces ==
    ChainTraces
    \cup {AccessTrace(t, a, m, x) :
            t \in EntityTitles, a \in {T1}, m \in {"read", "write"}, x \in TraceSlots}
    \cup {AccessTrace("paymaster", a, "write", 1000) : a \in {S1, MW1}}
    \cup {[AccessTrace("paymaster", T1, "write", 5000 + associatedSlotOffset + MaxSlotGap)
             EXCEPT !.AltMempools = {<<"paymaster", T1,
                                       5000 + associatedSlotOffset + MaxSlotGap>>}]}
    \cup {SizeTrace(t, a, n, rip) :
            t \in {"account"}, a \in {T1, rip7212precompile, S1}, n \in {0, 1},
            rip \in BOOLEAN}
    \cup {[QuietTrace EXCEPT !.Calls = <<f>>] : f \in Frames}

\* ops without factory and paymaster, with a factory, with a paymaster, with
\* both
ValidationOps ==
    {OpShape(S1, 0, ZeroAddress, ZeroAddress, 100, 6850186),
     OpShape(S1, 1, F1, ZeroAddress, 100, 6850186),
     OpShape(S1, 1, ZeroAddress, P1, 100, 6850186),
     OpShape(S1, 0, F1, P1, 100, 6850186)}

InitValidation ==
    /\ InitBase
    /\ mempool = EmptyMempool
    /\ repConst = DefaultReputationConstants
    /\ fn \in [name : {"TraceSimulateValidation"}, op : ValidationOps,
               stk : [sender : BOOLEAN, factory : BOOLEAN, paymaster : BOOLEAN],
               trace : ValidationTraces, done : {FALSE}, out : {<<"none", "">>}]

ApplyTraceSimulateValidation ==
    /\ fn.name = "TraceSimulateValidation"
    /\ ~fn.done
    /\ \E out \in TraceSimulateValidation(fn.op, fn.trace, fn.stk) :
          fn' = [fn EXCEPT !.done = TRUE, !.out = out]
    /\ UNCHANGED <<mempool, RepVars, ConfVars, TickVars, resp, txs, dbg, loop, inflight>>

NextValidation == ApplyTraceSimulateValidation

SpecValidation == InitValidation /\ [][NextValidation]_vars

\* --- the trace validation over traces whose maps hold several keys
T2 == "T2"

\* entity t uses two opcodes, reads and writes slots of two contracts and
\* touches two addresses
BusyInfo(reads, writes, sizes, opcodes) ==
    [EmptyInfo EXCEPT
       !.Opcodes = [o \in opcodes |-> 1],
       !.Access = [a \in {T1, T2} |->
                     IF a = T1 THEN [Reads |-> reads, Writes |-> writes]
                     ELSE [Reads |-> {1000}, Writes |-> {}]],
       !.ContractSize = [a \in {T1, T2} |-> sizes[a]]]

\* the alt-mempool directory has no exception, or one for the write of the
\* paymaster or the account to an unassociated slot of T1
OrderAltMempools ==
    {{}, {<<"paymaster", T1, 5000 + associatedSlotOffset + MaxSlotGap>>,
          <<"account", T1, 5000 + associatedSlotOffset + MaxSlotGap>>}}

OrderTraces ==
    ChainTraces
    \cup {[QuietTrace EXCEPT
             !.Keccak = AllKeccak,
             !.AltMempools = am,
             ![t] = BusyInfo(reads, writes, sizes, opcodes)] :
            t \in {"account", "paymaster"},
            am \in OrderAltMempools,
            reads \in {{1000, 1000 + associatedSlotOffset + MaxSlotGap}, {5000}},
            writes \in {{}, {5000 + associatedSlotOffset + MaxSlotGap}},
            sizes \in {[a \in {T1, T2} |-> 1], [a \in {T1, T2} |-> IF a = T1 THEN 1 ELSE 0]},
            opcodes \in {{"SLOAD", "SSTORE"}, {"SLOAD", "TIMESTAMP"}}}

InitOrder ==
    /\ InitBase
    /\ mempool = EmptyMempool
    /\ repConst = DefaultReputationConstants
    /\ fn \in [name : {"TraceOutcomes"}, op : ValidationOps,
               stk : [sender : BOOLEAN, factory : BOOLEAN, paymaster : BOOLEAN],
               trace : OrderTraces, done : {FALSE}, out : {Rejected(NoErr)}]

\* one run of the validation, under one order of its ranges
ApplyTraceOutcomes ==
    /\ fn.name = "TraceOutcomes"
    /\ ~fn.done
    /\ \E out \in TraceOutcomes(fn.op, fn.trace, fn.stk) :
          fn' = [fn EXCEPT !.done = TRUE, !.out = out]
    /\ UNCHANGED <<mempool, RepVars, ConfVars, TickVars, resp, txs, dbg, loop, inflight>>

NextOrder == ApplyTraceOutcomes

SpecOrder == InitOrder /\ [][NextOrder]_vars

\* --- the ingress checks of ValidateOpValues and the static
\* preVerificationGas, each applied on its own
\* common.AddressLength
AddressLength == 20

\* AiOperation.GetMaxPrefund: maxGasAvailable * maxFeePerGas
GetMaxPrefund(op) == GetMaxGasAvailable(op) * op.maxFeePerGas

\* a paymaster check that also asks for a stake
ValidatePaymasterAndDataStaked(op, dep, gc) ==
    IF op.paymasterAndDataLen = 0 THEN "none"
    ELSE IF op.paymasterAndDataLen < AddressLength
    THEN "PaymasterAndData: invalid length"
    ELSE IF gc.err # "none" THEN gc.err
    ELSE IF gc.bytecodeLen = 0 THEN "paymaster: code not deployed"
    ELSE IF dep.deposit < GetMaxPrefund(op) \/ ~dep.staked
    THEN "paymaster: not enough deposit to cover max prefund"
    ELSE "none"

\* checks.ValidatePaymasterAndData: the error returned, "none" for nil; gc
\* is the answer of GetCodeFunc for the paymaster
ValidatePaymasterAndData(op, dep, gc) ==
    IF op.paymasterAndDataLen = 0 THEN "none"
    ELSE IF op.paymasterAndDataLen < AddressLength
    THEN "PaymasterAndData: invalid length"
    ELSE IF gc.err # "none" THEN gc.err
    ELSE IF gc.bytecodeLen = 0 THEN "paymaster: code not deployed"
    ELSE IF dep.deposit < GetMaxPrefund(op)
    THEN "paymaster: not enough deposit to cover max prefund"
    ELSE "none"

\* a fee check that wants maxFeePerGas above the base fee
ValidateFeePerGasAbove(op, gbf) ==
    IF gbf.err # "none" THEN gbf.err
    ELSE IF gbf.isNil
    THEN IF op.maxPriorityFeePerGas # op.maxFeePerGas
         THEN "legacy fee mode: maxPriorityFeePerGas must equal maxFeePerGas"
         ELSE "none"
    ELSE IF op.maxPriorityFeePerGas > op.maxFeePerGas
    THEN "maxFeePerGas: must be equal to or greater than maxPriorityFeePerGas"
    ELSE IF op.maxFeePerGas <= gbf.bf
    THEN "maxFeePerGas: must be equal to or greater than current block.basefee"
    ELSE "none"

\* checks.ValidateFeePerGas: the error returned, "none" for nil; gbf is the
\* answer of GetBaseFeeFunc (an error, a nil base fee, or a base fee)
ValidateFeePerGas(op, gbf) ==
    IF gbf.err # "none" THEN gbf.err
    ELSE IF gbf.isNil
    THEN IF op.maxPriorityFeePerGas # op.maxFeePerGas
         THEN "legacy fee mode: maxPriorityFeePerGas must equal maxFeePerGas"
         ELSE "none"
    ELSE IF op.maxPriorityFeePerGas > op.maxFeePerGas
    THEN "maxFeePerGas: must be equal to or greater than maxPriorityFeePerGas"
    ELSE IF op.maxFeePerGas < gbf.bf
    THEN "maxFeePerGas: must be equal to or greater than current block.basefee"
    ELSE "none"

\* number of non-zero bytes of the big-endian 32-byte word of n
RECURSIVE NonZeroBytesOf(_)
NonZeroBytesOf(n) ==
    IF n = 0 THEN 0
    ELSE (IF n % 256 # 0 THEN 1 ELSE 0) + NonZeroBytesOf(n \div 256)

\* a byte string padded to whole 32-byte words
PaddedLen(len) == ((len + 31) \div 32) * 32

\* Overhead.sanitizedPVG, sanitizedVGL, sanitizedCGL
sanitizedPVG == 100000
sanitizedVGL == 1000000
sanitizedCGL == 1000000

\* the 11 head words of the packed tuple
PackHeadLen == 11 * 32

\* AiOperation.Pack of the sanitized copy of CalcPreVerificationGas, as
\* counts of bytes: the ABI encoding of the tuple (sender, nonce, initCode,
\* callData, callGasLimit, verificationGasLimit, preVerificationGas,
\* maxFeePerGas, maxPriorityFeePerGas, paymasterAndData, signature). A byte
\* string is given by its length len and its number nz of non-zero bytes; it
\* takes an offset word in the head and a length word and the padded bytes
\* in the tail. The signature is replaced by len(signature) bytes 0x01.
SanitizedPack(d) ==
    LET offInitCode == PackHeadLen
        offCallData == offInitCode + 32 + PaddedLen(d.initCode.len)
        offPaymaster == offCallData + 32 + PaddedLen(d.callData.len)
        offSignature == offPaymaster + 32 + PaddedLen(d.paymasterAndData.len)
        total == offSignature + 32 + PaddedLen(d.signatureLen)
        nonZero ==
            AddressLength + NonZeroBytesOf(d.nonce)
              + NonZeroBytesOf(sanitizedCGL) + NonZeroBytesOf(sanitizedVGL)
              + NonZeroBytesOf(sanitizedPVG)
              + NonZeroBytesOf(d.maxFeePerGas) + NonZeroBytesOf(d.maxPriorityFeePerGas)
              + NonZeroBytesOf(offInitCode) + NonZeroBytesOf(offCallData)
              + NonZeroBytesOf(offPaymaster) + NonZeroBytesOf(offSignature)
              + NonZeroBytesOf(d.initCode.len) + d.initCode.nz
              + NonZeroBytesOf(d.callData.len) + d.callData.nz
              + NonZeroBytesOf(d.paymasterAndData.len) + d.paymasterAndData.nz
              + NonZeroBytesOf(d.signatureLen) + d.signatureLen
    IN  MkOp(S1, d.nonce, ZeroAddress, ZeroAddress, d.maxPriorityFeePerGas,
             d.maxFeePerGas, sanitizedCGL, sanitizedVGL, sanitizedPVG,
             total - nonZero, nonZero)

\* CalcPreVerificationGas with the default overhead and calcPVGFuncNoop
staticPVG(d) == CalcPreVerificationGas(DefaultOverhead, SanitizedPack(d))

\* one more byte b at the end of a byte string
AppendByte(bs, b) == [len |-> bs.len + 1, nz |-> bs.nz + (IF b = 0 THEN 0 ELSE 1)]

\* the op with one more byte at the end of one of its byte strings (the
\* byte of a signature does not matter: it is replaced by 0x01)
Lengthen(d, field, b) ==
    CASE field = "initCode" -> [d EXCEPT !.initCode = AppendByte(@, b)]
      [] field = "callData" -> [d EXCEPT !.callData = AppendByte(@, b)]
      [] field = "paymasterAndData" -> [d EXCEPT !.paymasterAndData = AppendByte(@, b)]
      [] field = "signature" -> [d EXCEPT !.signatureLen = @ + 1]

\* ops whose paymasterAndData has the given length, at a price
PaymasterOp(len, fee) ==
    [paymasterAndDataLen |-> len]
      @@ MkOp(S1, 0, ZeroAddress, IF len >= AddressLength THEN P1 ELSE ZeroAddress,
              fee, fee, 1, 1, 1, 0, 0)

PaymasterInputs ==
    [name : {"ValidatePaymasterAndData"},
     op : {PaymasterOp(len, fee) : len \in {0, 4, 19, 20, 52}, fee \in {1, 2}},
     dep : [deposit : {0, 4, 5, 9, 10}, staked : BOOLEAN],
     gc : [err : {"none", "eth_getCode failed"}, bytecodeLen : {0, 2}],
     done : {FALSE}, out : {"none"}]

FeeInputs ==
    [name : {"ValidateFeePerGas"},
     op : {MkOp(S1, 0, ZeroAddress, ZeroAddress, prio, fee, 1, 1, 1, 0, 0) :
             prio \in 0..3, fee \in 0..3},
     gbf : [err : {"none", "eth_getBlockByNumber failed"}, isNil : BOOLEAN, bf : 0..3],
     done : {FALSE}, out : {"none"}]

\* byte strings: empty, or of a length just below a word boundary, all
\* zero or all non-zero
ByteStrings ==
    {[len |-> 0, nz |-> 0]}
      \cup UNION {{[len |-> l, nz |-> 0], [len |-> l, nz |-> l]} : l \in {31, 511}}

PVGOps ==
    [nonce : {0}, maxFeePerGas : {100}, maxPriorityFeePerGas : {100},
     initCode : ByteStrings, callData : ByteStrings,
     paymasterAndData : ByteStrings, signatureLen : {0, 65, 511}]

PVGInputs ==
    [name : {"CalcPreVerificationGas"}, op : PVGOps,
     field : {"initCode", "callData", "paymasterAndData", "signature"},
     byte : {0, 1}, done : {FALSE}, out : {0}, outLonger : {0}]

InitChecks ==
    /\ InitBase
    /\ mempool = EmptyMempool
    /\ repConst = DefaultReputationConstants
    /\ fn \in PaymasterInputs \cup FeeInputs \cup PVGInputs

ApplyValidatePaymasterAndData ==
    /\ fn.name = "ValidatePaymasterAndData"
    /\ ~fn.done
    /\ fn' = [fn EXCEPT !.done = TRUE,
                        !.out = ValidatePaymasterAndData(fn.op, fn.dep, fn.gc)]
    /\ UNCHANGED <<mempool, RepVars, ConfVars, TickVars, resp, txs, dbg, loop, inflight>>

ApplyValidateFeePerGas ==
    /\ fn.name = "ValidateFeePerGas"
    /\ ~fn.done
    /\ fn' = [fn EXCEPT !.done = TRUE, !.out = ValidateFeePerGas(fn.op, fn.gbf)]
    /\ UNCHANGED <<mempool, RepVars, ConfVars, TickVars, resp, txs, dbg, loop, inflight>>

\* the static value of an op and of the op with one field a byte longer
ApplyCalcPreVerificationGas ==
    /\ fn.name = "CalcPreVerificationGas"
    /\ ~fn.done
    /\ fn' = [fn EXCEPT !.done = TRUE, !.out = staticPVG(fn.op),
                        !.outLonger = staticPVG(Lengthen(fn.op, fn.field, fn.byte))]
    /\ UNCHANGED <<mempool, RepVars, ConfVars, TickVars, resp, txs, dbg, loop, inflight>>

NextChecks ==
    \/ ApplyValidatePaymasterAndData
    \/ ApplyValidateFeePerGas
    \/ ApplyCalcPreVerificationGas

SpecChecks == InitChecks /\ [][NextChecks]_vars

\* --- getStatus applied to counters
MaxStatusSeen == 1000
MaxStatusIncluded == 100

InitStatus ==
    /\ InitBase
    /\ mempool = EmptyMempool
    /\ repConst \in {DefaultReputationConstants, SmallReputationConstants}
    /\ fn \in [name : {"getStatus"}, seen : 0..MaxStatusSeen,
               included : 0..MaxStatusIncluded, out : {"unset"}]

ApplyGetStatus ==
    /\ fn.name = "getStatus"
    /\ fn.out = "unset"
    /\ fn' = [fn EXCEPT !.out = getStatus(fn.seen, fn.included, repConst)]
    /\ UNCHANGED <<mempool, RepVars, ConfVars, TickVars, resp, txs, dbg, loop, inflight>>

NextStatus == ApplyGetStatus

SpecStatus == InitStatus /\ [][NextStatus]_vars

\* --- MaintainGasLimit applied to batches
\* an op of sender S1 that adds gas to a batch: BatchGasOf(GasOp(n, gas)) = gas
GasOp(n, gas) ==
    OpShape(S1, n, ZeroAddress, ZeroAddress, 100, gas - 149814)

GasKinds == {2000000, 5000000, 7000000}

GasCaps == {18000000, 10000000}

\* batches of up to MaxGasBatch ops, op i with nonce i-1
GasBatches ==
    UNION {{[i \in 1..n |-> GasOp(i - 1, g[i])] : g \in [1..n -> GasKinds]} :
              n \in 0..MaxGasBatch}

InitGas ==
    /\ InitBase
    /\ mempool = EmptyMempool
    /\ repConst = DefaultReputationConstants
    /\ fn \in [name : {"MaintainGasLimit"}, b : GasBatches, cap : GasCaps,
               done : {FALSE}, out : {<<>>}]

ApplyMaintainGasLimit ==
    /\ fn.name = "MaintainGasLimit"
    /\ ~fn.done
    /\ fn' = [fn EXCEPT !.done = TRUE, !.out = MaintainGasLimit(fn.b, fn.cap)]
    /\ UNCHANGED <<mempool, RepVars, ConfVars, TickVars, resp, txs, dbg, loop, inflight>>

NextGas == ApplyMaintainGasLimit

SpecGas == InitGas /\ [][NextGas]_vars

\* --- the bundler's tick over a mempool of pending ops
TickOps(n) == [i \in 1..n |-> GasOp(i - 1, 2000000)]

\* the chain is quiet, or the oldest op has expired
TickEnvs == {QuietEnv, [QuietEnv EXCEPT !.expired = {GasOp(0, 2000000)}]}

\* an op of a second sender, deployed by factory F1 and paid by paymaster P1
OtherOp == MkOp(S2, 0, F1, P1, 100, 100, 1650186, 100000, 50000, 400, 240)

RECURSIVE AddAll(_, _, _)
\* the mempool after the ops of q arrived one by one
AddAll(mem, mw, q) ==
    IF q = <<>> THEN mem ELSE AddAll(AddOp(mem, mw, Head(q)), mw, Tail(q))

\* ops are pending when the bundler starts: up to MaxTickOps of sender S1,
\* with or without the op of S2 after them
InitTick ==
    /\ InitBase
    /\ \E n \in 1..MaxTickOps : \E more \in {<<>>, <<OtherOp>>} :
          mempool = AddAll(EmptyMempool, MW1, TickOps(n) \o more)
    /\ repConst = DefaultReputationConstants
    /\ fn = [name |-> "none"]

\* every call fails, one call succeeds, every call succeeds
TickAnswers ==
    {ans \in SubmitAnswers :
        ans.accepted \in {{}, {<<"builder1", 1>>}, Builders \X BroadcastBlocks}}

NextTick ==
    \/ \E env \in TickEnvs : Process(MW1, env)
    \/ \E out \in EstimateOutcomes(optsBatch) : EstimateHandleOpsGas(out)
    \/ SkipEmptyBatch
    \/ \E ans \in TickAnswers : HandleOps(ans)
    \/ FinishProcess(MW1)

SpecTick == InitTick /\ [][NextTick]_vars

\* --- Reputation.Override over a store whose writes can fail
RECURSIVE OverrideWrites(_, _, _)
\* the loop of Override: overrideEntity for each entry in turn; the write of
\* an entry whose address is in failing returns an error and stores nothing
OverrideWrites(rep, entries, failing) ==
    IF entries = <<>> THEN rep
    ELSE OverrideWrites(IF Head(entries).address \in failing THEN rep
                        ELSE overrideEntity(rep, Head(entries)),
                        Tail(entries), failing)

\* an Override that returns the errors of its writes
OverrideErrJoined(entries, db) ==
    IF \E i \in 1..Len(entries) : entries[i].address \in db.failing
    THEN "Internal"
    ELSE IF db.commitFails THEN "Internal" ELSE "none"

\* the error Override returns: stdErr.Join(err, ...) is called for its
\* value, which is dropped, so err is nil when the loop ends and only an
\* error of the commit of db.Update is left
OverrideErr(entries, db) == IF db.commitFails THEN "Internal" ELSE "none"

\* Debug.SetReputation -> Reputation.Override with the answers of the
\* store: the addresses whose write fails, and whether the commit fails
Override(entries, db) ==
    LET err == OverrideErr(entries, db)
        rep == IF err = "none"
               THEN OverrideWrites([opsSeen |-> opsSeen, opsIncluded |-> opsIncluded],
                                   entries, db.failing)
               ELSE [opsSeen |-> opsSeen, opsIncluded |-> opsIncluded]
    IN  /\ opsSeen' = rep.opsSeen
        /\ opsIncluded' = rep.opsIncluded
        /\ resp' = Resp("debug_bundler_setReputation", [entries |-> entries, db |-> db],
                        err, "Override")
        /\ UNCHANGED <<mempool, ConfVars, TickVars, fn, txs, dbg, loop, inflight>>

\* lists of one or two entries for different addresses
OverrideLists ==
    {<<e>> : e \in OverrideEntries}
      \cup {<<e1, e2>> : e1 \in {e \in OverrideEntries : e.address = S1},
                         e2 \in {e \in OverrideEntries : e.address = P1}}

StoreAnswers == [failing : SUBSET {S1, P1}, commitFails : BOOLEAN]

InitOverride ==
    /\ InitBase
    /\ mempool = EmptyMempool
    /\ repConst = DefaultReputationConstants
    /\ fn = [name |-> "none"]

NextOverride == \E entries \in OverrideLists : \E db \in StoreAnswers : Override(entries, db)

SpecOverride == InitOverride /\ [][NextOverride]_vars

\* --- Reputation.IncOpsSeen over a store whose writes can fail
\* the addresses IncOpsSeen increments, in the order of its calls
SeenEntities(op) ==
    <<op.sender>>
      \o (IF GetFactory(op) # ZeroAddress THEN <<GetFactory(op)>> ELSE <<>>)
      \o (IF GetPaymaster(op) # ZeroAddress THEN <<GetPaymaster(op)>> ELSE <<>>)

RECURSIVE SeenWrites(_, _, _)
\* the counters as the transaction sees them after incrementOpsSeenByEntity
\* for each address in turn: a read sees the writes made before it, and the
\* write of an address in failing returns an error and stores nothing
SeenWrites(seen, addrs, failing) ==
    IF addrs = <<>> THEN seen
    ELSE SeenWrites(IF Head(addrs) \in failing THEN seen
                    ELSE [seen EXCEPT ![Head(addrs)] = @ + 1],
                    Tail(addrs), failing)

\* an IncOpsSeen whose joined error is dropped
IncOpsSeenErrDropped(op, db) == IF db.commitFails THEN "Internal" ELSE "none"

\* the error IncOpsSeen returns: the errors of its writes joined, or the
\* error of the commit of db.Update
IncOpsSeenErr(op, db) ==
    IF \E i \in 1..Len(SeenEntities(op)) : SeenEntities(op)[i] \in db.failing
    THEN "Internal"
    ELSE IF db.commitFails THEN "Internal" ELSE "none"

\* the handler with the answers of the store: db.Update commits the writes
\* of the transaction when the function returns nil, and discards them
\* otherwise
IncOpsSeenStore(op, db) ==
    LET err == IncOpsSeenErr(op, db)
    IN  /\ \A a \in Entities : opsSeen[a] + 2 <= MaxOpsSeen
        /\ opsSeen' = IF err = "none"
                      THEN SeenWrites(opsSeen, SeenEntities(op), db.failing)
                      ELSE opsSeen
        /\ resp' = Resp("IncOpsSeen", [op |-> op, db |-> db], err, "IncOpsSeen")
        /\ UNCHANGED <<mempool, opsIncluded, ConfVars, TickVars, fn, txs, dbg, loop,
                       inflight>>

\* ops with every combination of roles; in the last one address is factory
\* and paymaster
SeenOps ==
    {OpShape(S1, 0, f, p, 100, 6850186) : f \in {ZeroAddress, F1}, p \in {ZeroAddress, P1}}
      \cup {OpShape(S2, 0, F1, F1, 100, 6850186)}

SeenStoreAnswers == [failing : SUBSET {S1, F1, P1}, commitFails : BOOLEAN]

InitSeen ==
    /\ InitBase
    /\ mempool = EmptyMempool
    /\ repConst = DefaultReputationConstants
    /\ fn = [name |-> "none"]

NextSeen == \E op \in SeenOps : \E db \in SeenStoreAnswers : IncOpsSeenStore(op, db)

SpecSeen == InitSeen /\ [][NextSeen]_vars

\* --- the loop of Bundler.Run under debug_bundler_setBundlingMode
\* the runtime sends a tick on ticker.C, which holds one tick at most; a
\* tick that finds the channel full is dropped
TickerFires ==
    /\ loop.ticker = "running"
    /\ loop.tickC = 0
    /\ loop' = [loop EXCEPT !.tickC = 1]
    /\ UNCHANGED <<mempool, RepVars, ConfVars, TickVars, resp, txs, dbg, inflight, fn>>

\* case <-ticker.C of the goroutine of Run: it is at the select when no
\* Process run of it is open; the tick calls Process for the middleware,
\* which returns at once when nothing is pending
LoopTick(mw, env) ==
    /\ loop.live
    /\ bpc = "idle"
    /\ loop.tickC = 1
    /\ loop' = [loop EXCEPT !.tickC = 0]
    /\ IF Len(Dump(mempool, mw)) > 0 THEN StartProcess(mw, env) /\ UNCHANGED inflight
       ELSE UNCHANGED <<mempool, RepVars, ConfVars, TickVars, resp, txs, dbg, inflight, fn>>

\* case <-i.done of the goroutine of Run: it takes the value of a Stop
\* blocked in i.done <- true and returns; Stop and with it the RPC return
LoopDone ==
    /\ loop.live
    /\ bpc = "idle"
    /\ loop.call = "send"
    /\ loop' = [loop EXCEPT !.live = FALSE, !.call = "idle"]
    /\ resp' = Resp("debug_bundler_setBundlingMode", [mode |-> "manual"], "none", "ok")
    /\ UNCHANGED <<mempool, RepVars, ConfVars, TickVars, txs, dbg, inflight, fn>>

\* a loop that is gone as soon as Stop is called
StopAtOnce(l, keep) ==
    IF ~l.isRunning THEN l
    ELSE [l EXCEPT !.isRunning = FALSE, !.live = FALSE, !.ticker = "stopped",
                   !.tickC = IF keep THEN @ ELSE 0]

\* Bundler.Stop up to the send on i.done: isRunning is cleared and the
\* ticker stopped; a tick already in ticker.C stays there or not (keep)
Stop(l, keep) ==
    IF ~l.isRunning THEN l
    ELSE [l EXCEPT !.isRunning = FALSE, !.ticker = "stopped",
                   !.tickC = IF keep THEN @ ELSE 0, !.call = "send"]

\* Bundler.Run: a new ticker and a new goroutine unless one is running
Run(l) ==
    IF l.isRunning THEN l
    ELSE [l EXCEPT !.isRunning = TRUE, !.live = TRUE, !.ticker = "running",
                   !.tickC = 0]

BundlingModes == {"manual", "auto", "other"}

\* Debug.SetBundlingMode, called when no other such call is open. The call
\* for "manual" on a running loop returns in LoopDone.
SetBundlingMode(mode) ==
    /\ loop.call = "idle"
    /\ CASE mode = "manual" -> \E keep \in BOOLEAN : loop' = Stop(loop, keep)
         [] mode = "auto" -> loop' = Run(loop)
         [] OTHER -> loop' = loop
    /\ resp' = IF mode = "manual" /\ loop.isRunning THEN resp
               ELSE Resp("debug_bundler_setBundlingMode", [mode |-> mode],
                         IF mode \in {"manual", "auto"} THEN "none" ELSE "Internal",
                         IF mode \in {"manual", "auto"} THEN "ok" ELSE "")
    /\ UNCHANGED <<mempool, RepVars, ConfVars, TickVars, txs, dbg, inflight, fn>>

LoopAnswers ==
    {ans \in SubmitAnswers : ans.accepted \in {{}, Builders \X BroadcastBlocks}}

InitLoop ==
    /\ InitBase
    /\ \E n \in 1..MaxTickOps : mempool = AddAll(EmptyMempool, MW1, TickOps(n))
    /\ repConst = DefaultReputationConstants
    /\ fn = [name |-> "none"]

NextLoop ==
    \/ TickerFires
    \/ LoopTick(MW1, QuietEnv)
    \/ \E out \in EstimateOutcomes(optsBatch) : EstimateHandleOpsGas(out)
    \/ SkipEmptyBatch
    \/ \E ans \in LoopAnswers : HandleOps(ans)
    \/ FinishProcess(MW1)
    \/ LoopDone
    \/ \E mode \in BundlingModes : SetBundlingMode(mode)

SpecLoop == InitLoop /\ [][NextLoop]_vars

\* --- the base fee the builder client projects for a future block
MaxBaseFee == 1000
MaxBlocksInTheFuture == 6

RECURSIVE ProjectBaseFeeFloor(_, _)
\* the projection without the extra wei per block
ProjectBaseFeeFloor(mbf, blocksInTheFuture) ==
    IF blocksInTheFuture = 0 THEN mbf
    ELSE ProjectBaseFeeFloor((mbf * 1125) \div 1000, blocksInTheFuture - 1)

RECURSIVE ProjectBaseFee(_, _)
\* for i := 0; i < b.blocksInTheFuture; i++ { a := mbf*1125; b := a/1000;
\* mbf = b+1 }
ProjectBaseFee(mbf, blocksInTheFuture) ==
    IF blocksInTheFuture = 0 THEN mbf
    ELSE ProjectBaseFee(((mbf * 1125) \div 1000) + 1, blocksInTheFuture - 1)

InitBaseFee ==
    /\ InitBase
    /\ mempool = EmptyMempool
    /\ repConst = DefaultReputationConstants
    /\ fn \in [name : {"ProjectBaseFee"}, baseFee : 0..MaxBaseFee,
               blocks : 0..MaxBlocksInTheFuture, done : {FALSE}, out : {0}]

ApplyProjectBaseFee ==
    /\ fn.name = "ProjectBaseFee"
    /\ ~fn.done
    /\ fn' = [fn EXCEPT !.done = TRUE, !.out = ProjectBaseFee(fn.baseFee, fn.blocks)]
    /\ UNCHANGED <<mempool, RepVars, ConfVars, TickVars, resp, txs, dbg, loop, inflight>>

NextBaseFee == ApplyProjectBaseFee

SpecBaseFee == InitBaseFee /\ [][NextBaseFee]_vars

\* --- debug mode: the ticker started by b.Run(), debug_bundler_sendBundleNow
\* calling Process from the RPC goroutine, and clients sending ops
DebugIdle == [pc |-> "idle"]

\* Debug.SendBundleNow, first half: d.bundler.Process(d.aimiddleware) up to
\* the submitter. Process takes no lock, so the call does not wait for a run
\* of the ticker to end.
SendBundleNow(mw, env) ==
    /\ dbg.pc = "idle"
    /\ Len(Dump(mempool, mw)) > 0
    /\ \E c \in {PreSubmit(adjustBatchSize(maxBatch, Dump(mempool, mw)), env,
                           maxBatchGasLimit)} :
          dbg' = [pc |-> "send", batch |-> c.batch,
                  pendingRemoval |-> c.pendingRemoval]
    /\ UNCHANGED <<mempool, RepVars, ConfVars, TickVars, resp, txs, fn, loop, inflight>>

\* Debug.SendBundleNow, second half: the submitter of the run (the estimate
\* answers with a gas value at once), then IncOpsIncluded, Clean and
\* RemoveOps, and the RPC answer
SendBundleNowSubmit(mw, ans) ==
    /\ dbg.pc = "send"
    /\ dbg' = DebugIdle
    /\ LET broadcast == dbg.batch # <<>> /\ ans.built /\ ~BroadcastFails(ans)
           ok == dbg.batch = <<>> \/ (broadcast /\ ans.included)
       IN  /\ IF broadcast THEN Len(txs) < MaxTxs /\ txs' = Append(txs, dbg.batch)
              ELSE txs' = txs
           /\ IF ok
              THEN /\ opsIncluded' = IncOpsIncluded(opsIncluded, dbg.batch)
                   /\ mempool' = RemoveOps(mempool, mw,
                                   Range(dbg.batch) \cup Range(dbg.pendingRemoval))
                   /\ resp' = IF dbg.batch = <<>>
                              THEN Resp("debug_bundler_sendBundleNow", NoReq,
                                        "Internal", "txn_hash not in ctx Data")
                              ELSE Resp("debug_bundler_sendBundleNow", NoReq, "none",
                                        "done")
              ELSE /\ UNCHANGED <<mempool, opsIncluded>>
                   /\ resp' = Resp("debug_bundler_sendBundleNow", NoReq,
                                   IF ~ans.built \/ broadcast THEN "Internal"
                                   ELSE "FlashbotsBroadcastBundle",
                                   "SendAiOperation")
    /\ UNCHANGED <<opsSeen, ConfVars, TickVars, fn, loop, inflight>>

\* the ops clients send while the bundler runs
RaceOps ==
    {OpShape(S1, 0, ZeroAddress, ZeroAddress, 100, 6850186),
     OpShape(S1, 1, F1, ZeroAddress, 100, 6850186)}

\* every builder answers alike
RaceAnswers ==
    {ans \in SubmitAnswers : ans.accepted \in {{}, Builders \X BroadcastBlocks}}

\* the chain is quiet, or the op of nonce 0 has expired
RaceEnvs ==
    {QuietEnv,
     [QuietEnv EXCEPT !.expired =
         {OpShape(S1, 0, ZeroAddress, ZeroAddress, 100, 6850186)}]}

\* conf.DebugMode: b.SetMaxBatch(1) after b.Run()
InitRace ==
    /\ opsSeen = [a \in Entities |-> 0]
    /\ opsIncluded = [a \in Entities |-> 0]
    /\ maxBatchGasLimit = 18000000
    /\ maxBatch = 1
    /\ resp = NoResp
    /\ IdleTick
    /\ mempool = EmptyMempool
    /\ repConst = DefaultReputationConstants
    /\ fn = [name |-> "none"]

NextRace ==
    \/ \E op \in RaceOps :
          SendAiOperation(MW1, op, [sender |-> TRUE, factory |-> TRUE,
                                    paymaster |-> TRUE], "none", "none")
    \/ \E env \in RaceEnvs : Process(MW1, env)
    \/ \E out \in EstimateOutcomes(optsBatch) : EstimateHandleOpsGas(out)
    \/ SkipEmptyBatch
    \/ \E ans \in RaceAnswers : HandleOps(ans)
    \/ FinishProcess(MW1)
    \/ \E env \in RaceEnvs : SendBundleNow(MW1, env)
    \/ \E ans \in RaceAnswers : SendBundleNowSubmit(MW1, ans)

SpecRace == InitRace /\ [][NextRace]_vars

\* --- eth_sendAiOperation served by two threads at a time
\* an op of S1 for each nonce, the second deployed by F1, and an op of S2
ConcurrentOps ==
    {OpShape(S1, 0, ZeroAddress, ZeroAddress, 100, 6850186),
     OpShape(S1, 1, F1, ZeroAddress, 100, 6850186),
     OtherOp}

\* no entity of the op is staked, or all are
ConcurrentStakes == {stk \in Stakes : stk.sender = stk.factory}

InitConcurrent ==
    /\ InitBase
    /\ mempool = EmptyMempool
    /\ repConst = SmallReputationConstants
    /\ fn = [name |-> "none"]

NextConcurrent ==
    \/ \E t \in Threads, op \in ConcurrentOps, stk \in ConcurrentStakes :
          BeginSendAiOperation(t, MW1, op, stk)
    \/ \E t \in Threads, ans \in ChainAnswers : EndSendAiOperation(t, ans[1], ans[2])

SpecConcurrent == InitConcurrent /\ [][NextConcurrent]_vars

\* --- ops arrive at the ingress while the loop of the bundler runs ticks;
\* no debug call is made
InitLife ==
    /\ InitBase
    /\ mempool = EmptyMempool
    /\ repConst = DefaultReputationConstants
    /\ fn = [name |-> "none"]

\* the ops clients send: nonce 0, its replacement at a higher price, and
\* nonce 1 deployed by a factory
LifeOps ==
    {OpShape(S1, 0, ZeroAddress, ZeroAddress, 100, 6850186),
     OpShape(S1, 0, ZeroAddress, ZeroAddress, 110, 6850186),
     OpShape(S1, 1, F1, ZeroAddress, 100, 6850186)}

NextLife ==
    \/ \E op \in LifeOps :
          SendAiOperation(MW1, op, [sender |-> TRUE, factory |-> TRUE,
                                    paymaster |-> TRUE], "none", "none")
    \/ \E env \in RaceEnvs : Process(MW1, env)
    \/ \E out \in EstimateOutcomes(optsBatch) : EstimateHandleOpsGas(out)
    \/ SkipEmptyBatch
    \/ \E ans \in RaceAnswers : HandleOps(ans)
    \/ FinishProcess(MW1)

SpecLife == InitLife /\ [][NextLife]_vars

\* --- an op that fills the gas limit of a batch on its own is pending
\* 18,000,000 gas, the whole of MaxBatchGasLimit
BigOp == GasOp(0, 18000000)

\* the big op, its replacement of ordinary size at a higher price, and the
\* next op of the sender
StuckOps ==
    {BigOp, OpShape(S1, 0, ZeroAddress, ZeroAddress, 110, 1850186),
     GasOp(1, 2000000)}

\* the chain is quiet, or the big op has expired
StuckEnvs == {QuietEnv, [QuietEnv EXCEPT !.expired = {BigOp}]}

InitStuck ==
    /\ InitBase
    /\ mempool = EmptyMempool
    /\ repConst = DefaultReputationConstants
    /\ fn = [name |-> "none"]

NextStuck ==
    \/ \E op \in StuckOps :
          SendAiOperation(MW1, op, [sender |-> TRUE, factory |-> TRUE,
                                    paymaster |-> TRUE], "none", "none")
    \/ \E env \in StuckEnvs : Process(MW1, env)
    \/ \E out \in EstimateOutcomes(optsBatch) : EstimateHandleOpsGas(out)
    \/ SkipEmptyBatch
    \/ \E ans \in RaceAnswers : HandleOps(ans)
    \/ FinishProcess(MW1)

SpecStuck == InitStuck /\ [][NextStuck]_vars

\* --- the searcher's submitter under every configuration of the builder
\* client: any list of builders, blocksInTheFuture from 0
BuilderConfs == [builders : SUBSET Builders, blocksInTheFuture : 0..2]

\* up to three ops are pending when the bundler starts
InitBroadcast ==
    /\ opsSeen = [a \in Entities |-> 0]
    /\ opsIncluded = [a \in Entities |-> 0]
    /\ maxBatchGasLimit = 18000000
    /\ maxBatch = 0
    /\ resp = NoResp
    /\ bpc = "idle"
    /\ builder \in BuilderConfs
    /\ inflight = [t \in Threads |-> NoCall]
    /\ loop = LoopRunning
    /\ batch = <<>> /\ pendingRemoval = <<>> /\ optsBatch = <<>>
    /\ reverts = 0
    /\ sent = <<>> /\ txs = <<>>
    /\ dbg = [pc |-> "idle"]
    /\ \E n \in 1..3 : mempool = AddAll(EmptyMempool, MW1, TickOps(n))
    /\ repConst = DefaultReputationConstants
    /\ fn = [name |-> "none"]

NextBroadcast ==
    \/ Process(MW1, QuietEnv)
    \/ \E out \in EstimateOutcomes(optsBatch) : EstimateHandleOpsGas(out)
    \/ SkipEmptyBatch
    \/ \E ans \in SubmitAnswers : HandleOps(ans)
    \/ FinishProcess(MW1)

SpecBroadcast == InitBroadcast /\ [][NextBroadcast]_vars

(***************************************************************************)
(* Properties                                                              *)
(***************************************************************************)
\* addresses an op names, in any role
OpEntities(op) == {op.sender, GetFactory(op), GetPaymaster(op)} \ {ZeroAddress}

\* the latest call was eth_sendAiOperation
SentOp(r) == r.method = "eth_sendAiOperation"

\* C1: under every middleware the mempool holds at most one entry per
\* (sender, nonce); a second op with the same key replaces the first or is
\* rejected, it is never stored beside it.
C1_OneEntryPerKey ==
    \A mw \in Middlewares :
        \A i, j \in 1..Len(mempool.ops[mw]) :
            MemKey(mempool.ops[mw][i]) = MemKey(mempool.ops[mw][j]) => i = j

\* an op took the place of the incumbent of its key, beside another entry
C1_Witness ==
    /\ resp.method = "AddOp"
    /\ resp.note = "duplicate"
    /\ resp.err = "none"
    /\ Len(mempool.ops[resp.req.mw]) >= 2
    /\ resp.req.op \in Range(mempool.ops[resp.req.mw])

\* both fees of new are at least 110% of old's
BothFeesRaised(old, new) ==
    /\ 10 * new.maxPriorityFeePerGas >= 11 * old.maxPriorityFeePerGas
    /\ 10 * new.maxFeePerGas >= 11 * old.maxFeePerGas

\* C2: an op whose key is already in the mempool replaces the incumbent
\* only if both its fees are at least 110% of the incumbent's; otherwise
\* AddOp answers DuplicateUnderpriced and the mempool and its indexes stay
\* as they were.
C2_ReplacementRule ==
    [][resp'.method = "AddOp"
         /\ KeyPos(mempool.ops[resp'.req.mw], MemKey(resp'.req.op)) # 0
       => LET mw  == resp'.req.mw
              op  == resp'.req.op
              i   == KeyPos(mempool.ops[mw], MemKey(op))
              old == mempool.ops[mw][i]
          IN  IF BothFeesRaised(old, op)
              THEN /\ resp'.err = "none"
                   /\ mempool'.ops[mw] = [mempool.ops[mw] EXCEPT ![i] = op]
              ELSE /\ resp'.err = "DuplicateUnderpriced"
                   /\ mempool' = mempool]_vars

\* an op that raised only one of the two fees was turned away
C2_Witness ==
    /\ resp.method = "AddOp"
    /\ resp.err = "DuplicateUnderpriced"
    /\ \E old \in Range(mempool.ops[resp.req.mw]) :
          /\ MemKey(old) = MemKey(resp.req.op)
          /\ 10 * resp.req.op.maxPriorityFeePerGas >= 11 * old.maxPriorityFeePerGas
          /\ ~BothFeesRaised(old, resp.req.op)


\* pending ops of address a in the mempool, in the role it has in op
PendingAs(role, op, mw, mem) ==
    CASE role = "sender"    -> GetBySender(mem, mw, op.sender)
      [] role = "factory"   -> GetByFactory(mem, mw, GetFactory(op))
      [] role = "paymaster" -> GetByPaymaster(mem, mw, GetPaymaster(op))

RoleAddr(role, op) ==
    CASE role = "sender"    -> op.sender
      [] role = "factory"   -> GetFactory(op)
      [] role = "paymaster" -> GetPaymaster(op)

Roles == {"sender", "factory", "paymaster"}

\* C3: eth_sendAiOperation for an op whose sender, factory or paymaster is
\* banned is rejected with BannedOrThrottled (-32502), and neither the
\* mempool nor any opsSeen counter changes.
C3_BannedRejected ==
    [][SentOp(resp')
         /\ (\E a \in OpEntities(resp'.req.op) : StatusOf(a) = "banned")
       => /\ resp'.err = "BannedOrThrottled"
          /\ resp'.code = -32502
          /\ mempool' = mempool
          /\ opsSeen' = opsSeen]_vars

\* an op of a sender in good standing was rejected for its banned factory
C3_Witness ==
    /\ SentOp(resp)
    /\ resp.code = -32502
    /\ GetFactory(resp.req.op) # ZeroAddress
    /\ StatusOf(GetFactory(resp.req.op)) = "banned"
    /\ StatusOf(resp.req.op.sender) = "ok"

\* an entity of op is throttled and has at least
\* ThrottledEntityMempoolCount pending ops
ThrottledAtLimit(op, mw, mem) ==
    \E role \in Roles :
        /\ RoleAddr(role, op) # ZeroAddress
        /\ StatusOf(RoleAddr(role, op)) = "throttled"
        /\ Len(PendingAs(role, op, mw, mem)) >= repConst.ThrottledEntityMempoolCount

\* C4: an op of a throttled sender, factory or paymaster that already has
\* at least ThrottledEntityMempoolCount pending ops (any count >= the
\* limit) is rejected with BannedOrThrottled.
C4_ThrottledRejected ==
    [][SentOp(resp')
         /\ ThrottledAtLimit(resp'.req.op, resp'.req.mw, mempool)
       => /\ resp'.err = "BannedOrThrottled"
          /\ mempool' = mempool]_vars

\* an unstaked entity of the op has exactly as many pending ops as its role
\* allows
LimitHit(req, mem) ==
    \/ /\ ~req.stk.sender
       /\ Len(PendingAs("sender", req.op, req.mw, mem))
            = repConst.SameSenderMempoolCount
    \/ /\ GetFactory(req.op) # ZeroAddress
       /\ ~req.stk.factory
       /\ Len(PendingAs("factory", req.op, req.mw, mem))
            = repConst.SameUnstakedEntityMempoolCount
    \/ /\ GetPaymaster(req.op) # ZeroAddress
       /\ ~req.stk.paymaster
       /\ Len(PendingAs("paymaster", req.op, req.mw, mem))
            = repConst.SameUnstakedEntityMempoolCount

\* C5: for every op that reaches it, ValidateOpLimit returns
\* InvalidEntityStake exactly when an unstaked entity of the op has a
\* pending count equal to its role limit, and no error otherwise; staked
\* entities and a zero factory or paymaster are never the cause of a
\* rejection.
C5_OpLimitExact ==
    [][SentOp(resp')
       => \E err \in {ValidateOpLimit(NewAiOpHandlerContext(
                         resp'.req.op, resp'.req.mw, mempool, resp'.req.stk))} :
             /\ err = (IF LimitHit(resp'.req, mempool) THEN "InvalidEntityStake"
                       ELSE "none")
             /\ resp'.note = "ValidateOpLimit" => resp'.err = err]_vars

\* an op of a staked sender was rejected for its unstaked factory at the
\* limit
C5_Witness ==
    /\ SentOp(resp)
    /\ resp.err = "InvalidEntityStake"
    /\ resp.req.stk.sender
    /\ ~resp.req.stk.factory
    /\ GetFactory(resp.req.op) # ZeroAddress
    /\ Len(PendingAs("factory", resp.req.op, resp.req.mw, mempool))
         = repConst.SameUnstakedEntityMempoolCount

\* errors of the handlers before IncOpsSeen for a request, in pipeline order
EarlierErrs(req, mem) ==
    LET ctx == NewAiOpHandlerContext(req.op, req.mw, mem, req.stk)
    IN  <<CheckStatus(ctx), ValidateOpLimit(ctx), req.valuesErr, req.simErr>>

\* C6: opsSeen is incremented only for ops that passed CheckStatus,
\* ValidateOpLimit, ValidateOpValues and SimulateOp; when one of them
\* returns an error the pipeline stops there with that error and no opsSeen
\* counter and no mempool entry changes.
C6_SeenAfterHandlers ==
    [][SentOp(resp')
       => \E errs \in {EarlierErrs(resp'.req, mempool)} :
          \E bad \in {{i \in 1..4 : errs[i] # "none"}} :
              IF bad # {}
              THEN /\ opsSeen' = opsSeen
                   /\ mempool' = mempool
                   /\ resp'.err = errs[CHOOSE i \in bad : \A j \in bad : i <= j]
              ELSE opsSeen' = IncOpsSeen(opsSeen, resp'.req.op)]_vars

\* after one op was counted, another was rejected by the simulation and
\* left the counters alone
C6_Witness ==
    /\ SentOp(resp)
    /\ resp.err = "RejectedByEpOrAccount"
    /\ resp.note = "SimulateOp"
    /\ opsSeen[resp.req.op.sender] = 1
    /\ Len(mempool.ops[resp.req.mw]) = 1
    /\ resp.req.op \notin Range(mempool.ops[resp.req.mw])


\* C7: the status of an entity is a function of its counters and the
\* constants alone: banned when opsIncluded + BanSlack is below
\* opsSeen / MinInclusionRateDenominator (integer division), else throttled
\* when opsIncluded + ThrottlingSlack is below it, else ok; with 10/10/50,
\* (1000, 0) is banned, (1000, 60) throttled and (1000, 95) ok.
C7_StatusFunction ==
    (fn.name = "getStatus" /\ fn.out # "unset")
    => LET rc == repConst
           \* a < seen \div d  <=>  (a + 1) * d <= seen
           below(slack) ==
               (fn.included + slack + 1) * rc.MinInclusionRateDenominator <= fn.seen
       IN  /\ fn.out = "banned" <=> below(rc.BanSlack)
           /\ fn.out = "throttled" <=> (~below(rc.BanSlack) /\ below(rc.ThrottlingSlack))
           /\ fn.out = "ok" <=> (~below(rc.BanSlack) /\ ~below(rc.ThrottlingSlack))
           /\ (rc = DefaultReputationConstants /\ fn.seen = 1000)
              => /\ fn.included = 0 => fn.out = "banned"
                 /\ fn.included = 60 => fn.out = "throttled"
                 /\ fn.included = 95 => fn.out = "ok"

\* 1000 ops seen and 60 included under the defaults: throttled
C7_Witness ==
    /\ fn.name = "getStatus"
    /\ repConst = DefaultReputationConstants
    /\ fn.seen = 1000
    /\ fn.included = 60
    /\ fn.out = "throttled"

RECURSIVE SumGas(_)
\* gas of a batch, op by op
SumGas(q) == IF q = <<>> THEN 0 ELSE BatchGasOf(Head(q)) + SumGas(Tail(q))

AllGas(q, gas) == \A i \in 1..Len(q) : BatchGasOf(q[i]) = gas

\* C8: MaintainGasLimit keeps the longest prefix of the batch, in order,
\* whose running sum of maxGasAvailable - preVerificationGas + staticPVG is
\* strictly below the cap: the first op that brings the sum to the cap or
\* above is left out with all ops after it. Five ops of 5,000,000 under a
\* cap of 18,000,000 leave three.
C8_GasLimitPrefix ==
    (fn.name = "MaintainGasLimit" /\ fn.done)
    => LET out == fn.out
           k   == Len(out)
       IN  /\ k <= Len(fn.b)
           /\ out = SubSeq(fn.b, 1, k)
           /\ k > 0 => SumGas(out) < fn.cap
           /\ k < Len(fn.b) => SumGas(SubSeq(fn.b, 1, k + 1)) >= fn.cap
           /\ (Len(fn.b) = 5 /\ AllGas(fn.b, 5000000) /\ fn.cap = 18000000)
              => k = 3

\* five ops of 5,000,000 under a cap of 18,000,000: three are kept
C8_Witness ==
    /\ fn.name = "MaintainGasLimit"
    /\ fn.done
    /\ Len(fn.b) = 5
    /\ AllGas(fn.b, 5000000)
    /\ fn.cap = 18000000
    /\ Len(fn.out) = 3

C10_LoopShrinks ==
    bpc = "estimate" => Len(batch) + reverts = Len(optsBatch)


\* C11: when the submit stage of a run returns an error (not a FailedOp
\* handled inside the estimation loop) the run ends there: IncOpsIncluded
\* and the removal from the mempool do not happen, no opsIncluded counter
\* changes, and the bundler is idle again with the same ops pending.
C11_SubmitErrorAborts ==
    [][(bpc # "idle" /\ resp'.method = "Process" /\ resp'.err # "none")
       => /\ mempool' = mempool
          /\ opsIncluded' = opsIncluded
          /\ bpc' = "idle"]_vars

\* handleOps failed: the run is over, every op is still pending and none
\* was counted as included
C11_Witness ==
    /\ resp.method = "Process"
    /\ resp.err = "Internal"
    /\ resp.note = "HandleOps"
    /\ bpc = "idle"
    /\ Len(mempool.ops[MW1]) >= 2
    /\ \A a \in Entities : opsIncluded[a] = 0


\* the ops of q that are not in set D, in the order of q
Without(q, D) == SeqFilterOut(q, D)

\* C12: when a run ends after a successful submit, no op of the submitted
\* batch and no op of PendingRemoval is left in the mempool, opsIncluded of
\* the sender of every submitted op has grown, and the other mempool
\* entries are as they were.
C12_AfterSubmit ==
    [][(bpc = "finish" /\ bpc' = "idle" /\ sent # <<>>)
       => LET gone == Range(sent) \cup Range(pendingRemoval)
          IN  /\ \A op \in gone : op \notin Range(mempool'.ops[MW1])
              /\ \A op \in Range(sent) :
                    opsIncluded'[op.sender] > opsIncluded[op.sender]
              /\ mempool'.ops[MW1] = Without(mempool.ops[MW1], gone)]_vars


\* C13: no op is contained in more than one handleOps transaction that was
\* sent or broadcast, however runs of the ticker, calls of
\* debug_bundler_sendBundleNow and arriving ops interleave.
C13_AtMostOnce ==
    \A i \in 1..Len(txs), j \in 1..Len(txs) :
        i # j => Range(txs[i]) \cap Range(txs[j]) = {}


\* C14: once the transaction is built, the builder client's submitter returns
\* ErrFlashbotsBroadcastBundle exactly when every eth_sendBundle call (each
\* builder, each target block) returned an error; when at least one call
\* succeeded the bundle counts as broadcast, the submitter waits for
\* inclusion, and it returns without error when the transaction is included.
C14_BroadcastRule ==
    [][\A ans \in SubmitAnswers :
          (ans.built /\ HandleOps(ans))
          => /\ (resp'.err = "FlashbotsBroadcastBundle") <=> (ans.accepted = {})
             /\ (ans.accepted = {}) => (txs' = txs /\ bpc' = "idle")
             /\ (ans.accepted # {})
                => /\ txs' = Append(txs, optsBatch)
                   /\ (ans.included <=> (bpc' = "finish" /\ resp'.err = "none"))]_vars

\* one builder took the bundle for one block, every other call failed, and
\* the run went on after the wait
C14_Witness ==
    /\ bpc = "finish"
    /\ resp.note = "Wait" /\ resp.err = "none"
    /\ resp.req.accepted = {<<"builder1", 1>>}
    /\ txs # <<>>


\* the base fee after each of the first n blocks, block by block
FeePath(bf, n) ==
    LET f[i \in 0..n] == IF i = 0 THEN bf ELSE ((f[i - 1] * 1125) \div 1000) + 1
    IN  f

\* C15: the projected base fee is the current base fee after
\* bf <- floor(bf * 1125 / 1000) + 1 was applied exactly blocksInTheFuture
\* times; from 1000 and over 6 blocks that gives 2032.
C15_ProjectedBaseFee ==
    fn.done
    => /\ fn.out = FeePath(fn.baseFee, fn.blocks)[fn.blocks]
       /\ (fn.baseFee = 1000 /\ fn.blocks = 6) => fn.out = 2032

\* the projection from 1000 over 6 blocks was computed: 1126, 1267, 1426,
\* 1605, 1806, 2032
C15_Witness ==
    /\ fn.done
    /\ fn.baseFee = 1000 /\ fn.blocks = 6
    /\ \A i \in 0..6 :
          FeePath(1000, 6)[i] = <<1000, 1126, 1267, 1426, 1605, 1806, 2032>>[i + 1]
    /\ fn.out = 2032

\* C15 as stated: from 1000 and over 6 blocks the projected base fee is 2028.
C15_Example2028 ==
    (fn.done /\ fn.baseFee = 1000 /\ fn.blocks = 6) => fn.out = 2028


\* the appearances of address a in batch b: one for each op and each role
\* (sender, factory, paymaster) in which the op names a
Appearances(b, a) ==
    {<<i, role>> \in (1..Len(b)) \X Roles :
        RoleAddr(role, b[i]) = a /\ a # ZeroAddress}

\* C16: IncOpsIncluded raises opsIncluded of every address by the number of
\* its appearances in the batch that is left after the submitter (one per op
\* and role); ops that were dropped from the batch add nothing and addresses
\* that are not in the batch keep their counter.
C16_IncludedCounts ==
    [][(bpc = "finish" /\ bpc' = "idle")
       => \A a \in Entities :
             opsIncluded'[a] = opsIncluded[a] + Cardinality(Appearances(batch, a))]_vars

\* the op of S1 was dropped and the op of S2, with factory and paymaster,
\* went through: S2, F1 and P1 were counted once, S1 was not
C16_Witness ==
    /\ bpc = "idle" /\ resp.method = "Process" /\ resp.note = "done"
    /\ opsIncluded = [a \in Entities |-> IF a = S1 THEN 0 ELSE 1]
    /\ mempool.ops[MW1] = <<>>


\* every entry of q occurs once
EachOnce(q) == \A i, j \in 1..Len(q) : q[i] = q[j] => i = j

\* entries that are in both dumps are in the same order in both
SameOrder(before, after) ==
    SeqFilterOut(before, Range(before) \ Range(after))
        = SeqFilterOut(after, Range(after) \ Range(before))

\* the entries a dump holds after the latest call, given the dump before it
EntriesAfter(r, mw, before) ==
    CASE r.method = "AddOp" /\ r.req.mw = mw /\ r.err = "none"
            -> {o \in Range(before) : MemKey(o) # MemKey(r.req.op)} \cup {r.req.op}
      [] r.method = "RemoveOps" /\ r.req.mw = mw
            -> {o \in Range(before) : MemKey(o) \notin {MemKey(x) : x \in r.req.ops}}
      [] r.method = "debug_bundler_clearState" -> {}
      [] OTHER -> Range(before)

\* C17: after every AddOp (new key or replacement), RemoveOps and Clear,
\* Dump of a middleware returns exactly the entries that middleware holds,
\* each once and none of another middleware, in the order they arrived: the
\* entries that stay keep their order and an op with a new key comes last.
C17_DumpArrivalOrder ==
    [][\A mw \in Middlewares :
          \E before \in {Dump(mempool, mw)} : \E after \in {Dump(mempool', mw)} :
              /\ EachOnce(after)
              /\ Range(after) = EntriesAfter(resp', mw, before)
              /\ SameOrder(before, after)
              /\ (resp'.method = "AddOp" /\ resp'.req.mw = mw /\ resp'.note = "new")
                 => after = Append(before, resp'.req.op)]_vars

\* an op was removed from between two others: the dump holds the op of
\* nonce 1, which arrived first, before the op of S2, and the second
\* middleware still holds its own entry
C17_Witness ==
    /\ resp.method = "RemoveOps" /\ resp.req.mw = MW1
    /\ Len(Dump(mempool, MW1)) = 2
    /\ Dump(mempool, MW1)[1].nonce = 1
    /\ Dump(mempool, MW1)[2].sender = S2
    /\ \E o \in resp.req.ops : MemKey(o) = <<S1, 0>>
    /\ Len(Dump(mempool, MW2)) = 1


\* the nonces of q fall strictly from each entry to the next
StrictlyDescending(q) == \A i \in 1..Len(q) - 1 : q[i].nonce > q[i + 1].nonce

\* the context of an incoming op over the mempool as it is
ContextOf(op, mw) ==
    NewAiOpHandlerContext(op, mw, mempool,
                          [sender |-> FALSE, factory |-> FALSE, paymaster |-> FALSE])

\* C18: GetPendingSenderOps of the context of an op holds exactly the
\* mempool entries of the op's sender under the context's middleware,
\* newest nonce first, in whatever order they arrived; when the mempool is
\* empty the pending lists of sender, factory and paymaster are all empty.
C18_PendingSenderOps ==
    \A mw \in Middlewares : \A op \in MemOps :
        \E ctx \in {ContextOf(op, mw)} :
            /\ Range(ctx.pendingSenderOps)
                 = {o \in Range(Dump(mempool, mw)) : o.sender = op.sender}
            /\ EachOnce(ctx.pendingSenderOps)
            /\ StrictlyDescending(ctx.pendingSenderOps)
            /\ mempool = EmptyMempool
               => /\ ctx.pendingSenderOps = <<>>
                  /\ ctx.pendingFactoryOps = <<>>
                  /\ ctx.pendingPaymasterOps = <<>>

\* nonce 0 arrived before nonce 1, with an op of S2 between them, and the
\* pending list of S1 has nonce 1 first
C18_Witness ==
    /\ Len(Dump(mempool, MW1)) = 3
    /\ MemKey(Dump(mempool, MW1)[1]) = <<S1, 0>>
    /\ MemKey(Dump(mempool, MW1)[2]) = <<S2, 0>>
    /\ MemKey(Dump(mempool, MW1)[3]) = <<S1, 1>>
    /\ ContextOf(Dump(mempool, MW1)[1], MW1).pendingSenderOps
         = <<Dump(mempool, MW1)[3], Dump(mempool, MW1)[1]>>


\* C19: the factory and paymaster indexes agree with the primary store after
\* every AddOp (also one that replaces an entry by an op with another or no
\* factory or paymaster), RemoveOps and Clear: the pending factory ops of
\* address A are exactly the entries whose factory is A, each once, and the
\* same holds for paymasters.
C19_IndexesAgree ==
    \A mw \in Middlewares : \A op \in MemOps :
        \E ctx \in {ContextOf(op, mw)} :
            /\ EachOnce(ctx.pendingFactoryOps)
            /\ EachOnce(ctx.pendingPaymasterOps)
            /\ GetFactory(op) # ZeroAddress
               => Range(ctx.pendingFactoryOps)
                    = {o \in Range(Dump(mempool, mw)) : GetFactory(o) = GetFactory(op)}
            /\ GetPaymaster(op) # ZeroAddress
               => Range(ctx.pendingPaymasterOps)
                    = {o \in Range(Dump(mempool, mw)) :
                          GetPaymaster(o) = GetPaymaster(op)}

\* an op with paymaster P1 and no factory took the place of an op of
\* factory F1, beside another op of F1: F1 has the other op only, P1 has the
\* new one
C19_Witness ==
    /\ resp.method = "AddOp" /\ resp.note = "duplicate" /\ resp.err = "none"
    /\ resp.req.mw = MW1
    /\ GetPaymaster(resp.req.op) = P1 /\ GetFactory(resp.req.op) = ZeroAddress
    /\ GetByPaymaster(mempool, MW1, P1) = <<resp.req.op>>
    /\ Len(GetByFactory(mempool, MW1, F1)) = 1
    /\ resp.req.op \notin Range(GetByFactory(mempool, MW1, F1))
    /\ Len(Dump(mempool, MW1)) = 2


\* the trace reports an opcode of the banned set for an entity of the op
ReportsBanned(op, tr) ==
    \E c \in Range(CallsFromAiMiddleware(op, tr)) :
        DOMAIN c.Info.Opcodes \cap BannedOpCodes # {}

InfoSeen(op, tr, stk) == newKnownEntity(op, CallsFromAiMiddleware(op, tr), stk)

\* the trace shows nothing but one access of entity t to a slot of T1
OnlyAccess(tr, t, mode, slot) == tr = AccessTrace(t, T1, mode, slot)

\* the entity with title t is called during the validation of op
Called(op, t) ==
    CASE t = "account"   -> TRUE
      [] t = "factory"   -> GetFactory(op) # ZeroAddress
      [] t = "paymaster" -> GetPaymaster(op) # ZeroAddress

\* C21: an access, read or write, of any entity to a slot associated with
\* the sender never makes the validation reject the op, whatever the stake
\* of the entity, whether or not the op has init code, and whatever the
\* stake of the factory.
C21_SenderSlotsFree ==
    fn.name = "TraceSimulateValidation" /\ fn.done
    => \A t \in EntityTitles, mode \in {"read", "write"},
          slot \in {1000, 1000 + associatedSlotOffset} :
          (OnlyAccess(fn.trace, t, mode, slot) /\ Called(fn.op, t))
          => fn.out[1] = "none"


\* the slot the hash of the entity's own pre-image gives
OwnSlot(t) == CASE t = "account" -> 1000 [] t = "factory" -> 3000 [] t = "paymaster" -> 5000

\* C22: a read by an unstaked factory or paymaster of a slot associated
\* with that entity itself, in the storage of a contract that is neither the
\* sender nor the middleware, does not make the validation reject the op.
C22_OwnSlotReadFree ==
    fn.name = "TraceSimulateValidation" /\ fn.done
    => \A t \in {"factory", "paymaster"} :
          (OnlyAccess(fn.trace, t, "read", OwnSlot(t)) /\ Called(fn.op, t)
             /\ ~InfoSeen(fn.op, fn.trace, fn.stk)[t].IsStaked)
          => fn.out[1] = "none"

\* the trace shows nothing but the call frame f
OnlyFrame(tr, f) == tr = [QuietTrace EXCEPT !.Calls = <<f>>]

\* C23: the validation rejects the op whenever a call frame of the trace
\* carries value to a target other than the middleware, whatever the method
\* of the frame; a frame that carries value to the middleware is not
\* rejected for that.
C23_ValueTransfers ==
    fn.name = "TraceSimulateValidation" /\ fn.done
    => \A f \in Frames :
          (OnlyFrame(fn.trace, f) /\ f.Value > 0)
          => /\ f.To # MW1 => fn.out[1] # "none"
             /\ (f.To = MW1 /\ f.Method = "transfer") => fn.out[1] = "none"

\* the trace shows nothing but n executions of CREATE2 by entity t
OnlyCreate2(tr, t, n) ==
    tr = [QuietTrace EXCEPT ![t] = [EmptyInfo EXCEPT
                                      !.Opcodes = [o \in {create2OpCode} |-> n]]]

C25_PaymasterAndData ==
    (fn.name = "ValidatePaymasterAndData" /\ fn.done) =>
        /\ (fn.out = "none") <=>
              \/ fn.op.paymasterAndDataLen = 0
              \/ /\ fn.op.paymasterAndDataLen >= 20
                 /\ fn.gc.err = "none" /\ fn.gc.bytecodeLen > 0
                 /\ fn.dep.deposit >= GetMaxPrefund(fn.op)
        /\ \A staked \in BOOLEAN :
              ValidatePaymasterAndData(fn.op, [fn.dep EXCEPT !.staked = staked], fn.gc)
                = fn.out

\* an unstaked paymaster with code and just enough deposit was accepted
C25_Witness ==
    /\ fn.name = "ValidatePaymasterAndData" /\ fn.done
    /\ fn.op.paymasterAndDataLen = 20 /\ ~fn.dep.staked
    /\ fn.dep.deposit = 10 /\ GetMaxPrefund(fn.op) = 10
    /\ fn.out = "none"

\* C26: with a base fee, ValidateFeePerGas accepts exactly when
\* maxFeePerGas >= maxPriorityFeePerGas and maxFeePerGas >= base fee;
\* without one, exactly when the two fees are equal; an error of the base
\* fee lookup is returned as it is
C26_FeePerGas ==
    (fn.name = "ValidateFeePerGas" /\ fn.done) =>
        IF fn.gbf.err # "none" THEN fn.out = fn.gbf.err
        ELSE IF fn.gbf.isNil
        THEN (fn.out = "none") <=> (fn.op.maxPriorityFeePerGas = fn.op.maxFeePerGas)
        ELSE (fn.out = "none") <=>
                /\ fn.op.maxFeePerGas >= fn.op.maxPriorityFeePerGas
                /\ fn.op.maxFeePerGas >= fn.gbf.bf

\* an op priced exactly at the base fee was accepted
C26_Witness ==
    /\ fn.name = "ValidateFeePerGas" /\ fn.done
    /\ fn.gbf.err = "none" /\ ~fn.gbf.isNil /\ fn.gbf.bf = 2
    /\ fn.op.maxFeePerGas = 2 /\ fn.op.maxPriorityFeePerGas = 1
    /\ fn.out = "none"

\* C27: the static preVerificationGas does not go down when one of
\* initCode, callData, paymasterAndData, signature gets longer, the other
\* fields being the same
C27_StaticPVGMonotone ==
    (fn.name = "CalcPreVerificationGas" /\ fn.done) => fn.outLonger >= fn.out

C29_OverrideVerbatim ==
    (resp.method = "debug_bundler_setReputation" /\ resp.note = "Override") =>
        /\ resp.err = "none" =>
              \A i \in 1..Len(resp.req.entries) :
                  /\ opsSeen[resp.req.entries[i].address] = resp.req.entries[i].opsSeen
                  /\ opsIncluded[resp.req.entries[i].address]
                       = resp.req.entries[i].opsIncluded
        /\ (\E i \in 1..Len(resp.req.entries) :
               resp.req.entries[i].address \in resp.req.db.failing) => resp.err # "none"

\* C30: the batch the submitter hands to every estimate and to handleOps is
\* the batch as it stands after the drops so far, and no op dropped during
\* the estimation is in the transaction that was sent
C30_BatchAfterDrops ==
    /\ ((bpc = "estimate" /\ Len(batch) > 0) \/ bpc = "send") => optsBatch = batch
    /\ (bpc = "finish" /\ sent # <<>>) => Range(sent) \cap Range(pendingRemoval) = {}

\* C31: when the batch is empty at the end of the estimation loop (every op
\* was dropped, or the batch was empty on entry) the submitter builds and
\* sends no transaction and returns nil: the run goes on to the handlers
\* after it, no transaction of the run exists (so txn_hash is not set), and
\* the ops dropped so far are still in PendingRemoval
C31_EmptyBatchNoTransaction ==
    [][(bpc = "estimate" /\ Len(batch) = 0)
       => /\ bpc' = "finish"
          /\ resp'.err = "none"
          /\ txs' = txs
          /\ sent' = <<>>
          /\ pendingRemoval' = pendingRemoval
          /\ mempool' = mempool]_vars

\* the estimation dropped the only op of the batch: the run is past the
\* submitter with the op in PendingRemoval and no transaction
C31_Witness ==
    /\ bpc = "finish"
    /\ batch = <<>> /\ reverts = 1
    /\ Len(pendingRemoval) = 1
    /\ sent = <<>> /\ txs = <<>>

\* C32: without overrides, in every state reached by ingress calls and
\* ticks of the bundler, no address has more ops counted as included than
\* counted as seen
C32_IncludedAtMostSeen ==
    \A a \in Entities : opsIncluded[a] <= opsSeen[a]

\* two ops of S1, one of them deployed by F1, were seen and both included
C32_Witness ==
    /\ opsSeen[S1] = 2 /\ opsIncluded[S1] = 2
    /\ opsSeen[F1] = 1 /\ opsIncluded[F1] = 1
    /\ bpc = "idle"

\* the most ops an unstaked entity may have pending in a role
RoleLimit(role) ==
    IF role = "sender" THEN repConst.SameSenderMempoolCount
    ELSE repConst.SameUnstakedEntityMempoolCount

\* C33: however ingress calls interleave and whatever the stake of earlier
\* requests was, after an op was accepted no unstaked entity of it has more
\* pending ops in its role than the limit of the role
C33_UnstakedWithinLimit ==
    (SentOp(resp) /\ resp.err = "none") =>
        \A role \in Roles :
            (RoleAddr(role, resp.req.op) # ZeroAddress /\ ~resp.req.stk[role])
            => Len(PendingAs(role, resp.req.op, resp.req.mw, mempool)) <= RoleLimit(role)


\* C34: MaintainGasLimit only truncates: its batch is a prefix, in the same
\* order, of the batch it was given, it returns no error and marks nothing
\* for removal; the ops it cut are neither submitted nor removed by the
\* Clean of that tick, and are in the mempool when the tick is over
C34_GasLimitOnlyTruncates ==
    [][/\ (bpc = "idle" /\ bpc' = "estimate")
          => LET b4 == BeforeGasLimit(adjustBatchSize(maxBatch, Dump(mempool, MW1)),
                                      resp'.req.env)
                 b5 == MaintainGasLimit(b4, maxBatchGasLimit)
                 cut == Range(b4) \ Range(b5)
             IN  /\ b5 = SubSeq(b4, 1, Len(b5))
                 /\ resp'.err = "none"
                 /\ cut \cap Range(batch') = {}
                 /\ cut \cap Range(optsBatch') = {}
                 /\ cut \cap Range(pendingRemoval') = {}
       /\ (bpc # "idle")
          => \A op \in Range(mempool.ops[MW1])
                          \ (Range(batch) \cup Range(pendingRemoval)) :
                /\ op \in Range(mempool'.ops[MW1])
                /\ op \notin Range(batch') \cup Range(pendingRemoval')
                /\ op \notin Range(sent')]_vars

\* a tick over ten ops of 2,000,000 gas under a cap of 18,000,000 is over:
\* the ops that fitted were sent and removed, the op that was cut is pending
C34_Witness ==
    /\ bpc = "idle"
    /\ Len(txs) = 1
    /\ Len(sent) > 0
    /\ GasOp(9, 2000000) \in Range(mempool.ops[MW1])
    /\ GasOp(9, 2000000) \notin Range(sent)
    /\ GasOp(8, 2000000) \notin Range(mempool.ops[MW1])


\* C35: in every tick in which the first op of the batch that reaches
\* MaintainGasLimit needs MaxBatchGasLimit or more on its own, the handler
\* leaves an empty batch without an error, whatever the ops behind it need;
\* the steps of the tick that follow send nothing, and its Clean removes no
\* op but those of a sender and nonce marked for removal
C35_FirstOpOverLimitBlocks ==
    [][/\ (bpc = "idle" /\ bpc' = "estimate")
          => LET b4 == BeforeGasLimit(adjustBatchSize(maxBatch, Dump(mempool, MW1)),
                                      resp'.req.env)
             IN  (b4 # <<>> /\ BatchGasOf(b4[1]) >= maxBatchGasLimit)
                 => /\ batch' = <<>>
                    /\ optsBatch' = <<>>
                    /\ resp'.err = "none"
       /\ (bpc # "idle" /\ optsBatch = <<>> /\ bpc' # bpc)
          => /\ txs' = txs
             /\ sent' = <<>>
             /\ \A op \in Range(mempool.ops[MW1]) :
                   (\A p \in Range(pendingRemoval) :
                       p.sender # op.sender \/ p.nonce # op.nonce)
                   => op \in Range(mempool'.ops[MW1])]_vars

\* a tick is past the submitter with nothing sent: the big op is first in
\* the mempool and an op that would fit is behind it
C35_Witness ==
    /\ bpc = "finish"
    /\ batch = <<>> /\ pendingRemoval = <<>>
    /\ txs = <<>>
    /\ Len(mempool.ops[MW1]) = 2
    /\ mempool.ops[MW1][1] = BigOp


\* C36: when the builder client has no builder or blocksInTheFuture is 0,
\* a run that reaches the submit with a non-empty batch ends there with an
\* error: no broadcast succeeds, nothing is waited for, no transaction of
\* the run exists (so txn_hash is not set), the handlers after the submitter
\* do not run, and the error is ErrFlashbotsBroadcastBundle whenever the
\* transaction could be built
C36_NoBuilderNoBroadcast ==
    [][(/\ bpc = "send"
        /\ builder.builders = {} \/ builder.blocksInTheFuture = 0)
       => /\ bpc' = "idle"
          /\ txs' = txs
          /\ sent' = <<>>
          /\ mempool' = mempool
          /\ opsIncluded' = opsIncluded
          /\ resp'.err # "none"
          /\ resp'.note # "HandleOps" => /\ resp'.err = "FlashbotsBroadcastBundle"
                                         /\ resp'.note = "BroadcastBundle"]_vars

\* a run over two pending ops ended at the broadcast of a client that has
\* two builders and targets no block
C36_Witness ==
    /\ builder = [builders |-> Builders, blocksInTheFuture |-> 0]
    /\ bpc = "idle"
    /\ resp.method = "Process"
    /\ resp.err = "FlashbotsBroadcastBundle"
    /\ Len(mempool.ops[MW1]) = 2
    /\ txs = <<>>


\* C37: IncOpsSeen either returns nil and has added exactly 1 to opsSeen of
\* the sender, 1 for the factory when there is one and 1 for the paymaster
\* when there is one (2 for an address in two roles) and nothing anywhere
\* else, or returns an error and has changed no counter; it returns an error
\* when one of its increments fails
C37_IncOpsSeenAtomic ==
    [][resp'.method = "IncOpsSeen"
       => LET op == resp'.req.op
              f == GetFactory(op)
              p == GetPaymaster(op)
          IN  /\ resp'.err = "none"
                 => \A a \in Entities :
                       opsSeen'[a] = opsSeen[a]
                                       + (IF a = op.sender THEN 1 ELSE 0)
                                       + (IF f # ZeroAddress /\ a = f THEN 1 ELSE 0)
                                       + (IF p # ZeroAddress /\ a = p THEN 1 ELSE 0)
              /\ resp'.err # "none" => opsSeen' = opsSeen
              /\ (\E a \in {op.sender, f, p} \ {ZeroAddress} :
                     a \in resp'.req.db.failing) => resp'.err # "none"
              /\ opsIncluded' = opsIncluded]_vars

\* the op whose factory is also its paymaster was counted: 2 for F1
C37_Witness ==
    /\ resp.method = "IncOpsSeen" /\ resp.err = "none"
    /\ resp.req.op.sender = S2
    /\ opsSeen[S2] = 1 /\ opsSeen[F1] = 2 /\ opsSeen[S1] = 0


\* slots of T1 that lie past the slots associated with the sender and with
\* the paymaster, and are associated with no entity
UnassociatedSlots ==
    {1000 + associatedSlotOffset + MaxSlotGap, 5000 + associatedSlotOffset + MaxSlotGap}

\* C38: without an alt-mempool exception, an access, read or write, of an
\* entity to a slot of a contract other than the sender and the middleware,
\* associated neither with the sender nor with the entity, is accepted when
\* the entity is staked and rejected when it is not
C38_UnassociatedNeedsStake ==
    fn.name = "TraceSimulateValidation" /\ fn.done
    => \A t \in EntityTitles, mode \in {"read", "write"}, slot \in UnassociatedSlots :
          (OnlyAccess(fn.trace, t, mode, slot) /\ Called(fn.op, t))
          => (fn.out[1] = "none" <=> InfoSeen(fn.op, fn.trace, fn.stk)[t].IsStaked)


\* C39: the validation rejects the op whenever the contract-size map of an
\* entity holds an address of size 0, unless that address is the RIP-7212
\* precompile and RIP-7212 is supported; a trace that shows nothing but a
\* call to the precompile under RIP-7212 is accepted
C39_NoCodeRejected ==
    fn.name = "TraceSimulateValidation" /\ fn.done
    => /\ \A t \in EntityTitles :
             (\E a \in DOMAIN InfoSeen(fn.op, fn.trace, fn.stk)[t].Info.ContractSize :
                 /\ InfoSeen(fn.op, fn.trace, fn.stk)[t].Info.ContractSize[a] = 0
                 /\ ~(fn.trace.IsRIP7212Supported /\ a = rip7212precompile))
             => fn.out[1] # "none"
       /\ fn.trace = SizeTrace("account", rip7212precompile, 0, TRUE)
             => fn.out[1] = "none"


\* C40: for a fixed op, trace, stake map and alt-mempool directory, a run
\* of TraceSimulateValidation accepts exactly when every run under another
\* order of its ranges accepts, and an accepting run returns the touched
\* contracts and the alt-mempool ids that every other run returns
C40_VerdictOrderFree ==
    (fn.name = "TraceOutcomes" /\ fn.done)
    => \A o \in TraceOutcomes(fn.op, fn.trace, fn.stk) :
          /\ (o.err = NoErr) <=> (fn.out.err = NoErr)
          /\ o.err = NoErr => /\ o.TouchedContracts = fn.out.TouchedContracts
                              /\ o.AltMempoolIds = fn.out.AltMempoolIds

\* a run accepted an op whose staked paymaster reads its own slot and
\* writes, under an alt-mempool exception, a slot associated with nobody
C40_Witness ==
    /\ fn.name = "TraceOutcomes" /\ fn.done
    /\ fn.out.err = NoErr
    /\ Cardinality(fn.out.AltMempoolIds) = 1
    /\ {T1, T2, P1} \subseteq fn.out.TouchedContracts
    /\ Cardinality(DOMAIN fn.trace.paymaster.Opcodes) = 2

\* a case in which the runs report different violations
C40_WitnessTwoErrors ==
    /\ fn.name = "TraceOutcomes" /\ fn.done
    /\ Cardinality({o.err : o \in TraceOutcomes(fn.op, fn.trace, fn.stk)}) > 1

\* the errors the runs can report are those of TraceSimulateValidation
OutcomesAgree ==
    (fn.name = "TraceOutcomes" /\ fn.done)
    => {o.err : o \in TraceOutcomes(fn.op, fn.trace, fn.stk)}
         = TraceSimulateValidation(fn.op, fn.trace, fn.stk)

====
